---- MODULE Spec2Model ----
(***************************************************************************)
(* Model of the geo-keyed API cache of the weather bot: storage.py (the    *)
(* cache store), weather_app.py (the gateway that fills it) and the part   *)
(* of bot.py that tracks a user's location and evicts the old grid cell.   *)
(*                                                                         *)
(* Coordinates are Python floats.  A float is modelled as a record         *)
(*   [m |-> thousandths of a degree, nz |-> IEEE-754 negative zero]        *)
(* so that round(), the text f"{x:.2f}" and the comparison                 *)
(* abs(a - b) > 0.01 can be computed as CPython computes them.  Time is    *)
(* the value of time.time() in whole seconds.                              *)
(***************************************************************************)
EXTENDS Integers, Sequences, FiniteSets, TLC

VARIABLES
    store,      \* the directory .cache: cache key -> content of <key>.json
    now,        \* the clock read by time.time()
    user_data,  \* bot.py's process-wide table: user id -> stored location
    last,       \* the last operation that ran: its arguments and its outcome
    calls,      \* the calls of the gateway in progress, one per caller
    proc,       \* the bot process: "starting", "running" or "crashed"
    jobs,       \* the jobs of the scheduler: job id -> trigger
    user_file,  \* the content of user_data.json
    fsm         \* the conversation state of each user (FSMContext)

vars == <<store, now, user_data, last, calls, proc, jobs, user_file, fsm>>

(***************************************************************************)
(* Program constants and the bounds of the model.                          *)
(***************************************************************************)
CACHE_MAX_AGE_SECONDS == 600

\* Declared in weather_app.py and read by no function.
CACHE_MAX_AGE_HOURS == 3

MaxNow == 600

MaxPayload == 2

MaxRecords == 2

MaxCityLen == 2

\* The number of components in the mapping analyze_air_pollution is given.
MaxPollutants == 2

MaxReplies == 5

\* The readings of the clock that the model distinguishes: a record written
\* at 0 is 599 s old (fresh), 600 s old (the boundary) or 601 s old.
TimePoints == {t \in {0, 599, 600, 601, 1200} : t <= MaxNow}

\* A JSON value handled as a payload.  body identifies the remote response
\* it comes from, shape tells the full response ("object"), the response of
\* the air_pollution endpoint ("envelope") and the mapping under
\* list[0].components of that response ("components") apart, and local_name
\* is the value of the key _local_name ("" when the key is absent).
Response(shape, body) == [shape |-> shape, body |-> body, local_name |-> ""]

\* Python's None.
NoData == [shape |-> "None", body |-> 0, local_name |-> ""]

Payloads == {Response("object", b) : b \in 1..MaxPayload}

Users == {1}

(***************************************************************************)
(* Floats.                                                                 *)
(***************************************************************************)
Float(m, nz) == [m |-> m, nz |-> nz]

Abs(i) == IF i < 0 THEN -i ELSE i

\* The raw coordinates the handlers are called with: (lat, lon).
\*   PA1, PA2  two raw pairs of the cell (0.06, 0.06)
\*   PB        the cell (0.07, 0.06), one cell north of PA1/PA2
\*   PZ        rounds to ( 0.0, 0.0), the cell of the geocoding placeholder
\*   PN        rounds to (-0.0, 0.0)
\*   PL        the cell (0.0, 0.01), one cell east of PZ
PA1 == <<Float(56, FALSE), Float(64, FALSE)>>

PA2 == <<Float(64, FALSE), Float(56, FALSE)>>

PB == <<Float(70, FALSE), Float(64, FALSE)>>

PZ == <<Float(4, FALSE), Float(0, FALSE)>>

PN == <<Float(-4, FALSE), Float(0, FALSE)>>

PL == <<Float(4, FALSE), Float(14, FALSE)>>

RawPoints == {PA1, PA2, PB, PZ, PN, PL}

\* get_coordinates passes the integers 0, 0 as a placeholder.
Sentinel == <<Float(0, FALSE), Float(0, FALSE)>>

\* The decimal ties below 0.1 whose double lies above the tie, so that
\* round() takes them up: round(0.005, 2) = 0.01 but round(0.015, 2) = 0.01.
TiesAbove == {5, 25, 35, 55, 65, 85, 95}

\* Python's round(x, 2): the multiple of 0.01 nearest to the double, keeping
\* the sign of a zero result (round(-0.004, 2) is -0.0).
round2(x) ==
    LET a == Abs(x.m)
        q == a \div 10
        r == a % 10
        h == IF r > 5 \/ (r = 5 /\ a \in TiesAbove) THEN q + 1 ELSE q
        neg == x.m < 0 \/ x.nz
    IN  [m |-> (IF neg THEN -h ELSE h) * 10, nz |-> neg /\ h = 0]

normalize_coordinates(lat, lon) == <<round2(lat), round2(lon)>>

\* The text f"{x:.2f}": a sign and the digits, the digits given as a count
\* of hundredths.  The sign of a negative zero is printed: "-0.00".
fmt2(x) ==
    LET y == round2(x)
    IN  [sign |-> IF y.m < 0 \/ y.nz THEN "-" ELSE "", cents |-> Abs(y.m) \div 10]

\* Python's a == b on floats: -0.0 == 0.0.
FloatEq(a, b) == a.m = b.m

\* abs(a - b) > 0.01 in IEEE-754 double arithmetic, for a and b multiples of
\* 0.01.  Two cells or more apart it is true, in the same cell false.  One
\* cell apart the doubles decide:
\*   0.07 - 0.06 = 0.010000000000000009 > 0.01
\*   0.01 - 0.0  = 0.01, not > 0.01
AdjacentAbove == {{60, 70}}

abs_diff_gt_001(a, b) ==
    LET d == Abs(a.m - b.m)
    IN  \/ d > 10
        \/ d = 10 /\ {a.m, b.m} \in AdjacentAbove

(***************************************************************************)
(* Cache keys and records.                                                 *)
(***************************************************************************)
CoordEndpoints == {"weather", "forecast", "air_pollution"}

GeoEndpoint == "geocoding_c"

\* A cache key made of the coordinates alone.
get_cache_key_coords(lat, lon, endpoint) ==
    LET n == normalize_coordinates(lat, lon)
    IN  <<fmt2(n[1]), fmt2(n[2]), "">>

\* The key string f"{norm_lat:.2f}_{norm_lon:.2f}_{endpoint}" as its three
\* fields; its MD5 digest names the file, and distinct strings are taken to
\* have distinct digests.
get_cache_key(lat, lon, endpoint) ==
    LET n == normalize_coordinates(lat, lon)
    IN  <<fmt2(n[1]), fmt2(n[2]), endpoint>>

\* The characters of the decimal numeral of a natural number.
DigitChars == <<"0", "1", "2", "3", "4", "5", "6", "7", "8", "9">>

RECURSIVE Numeral(_)
Numeral(n) ==
    IF n < 10 THEN <<DigitChars[n + 1]>>
    ELSE Numeral(n \div 10) \o <<DigitChars[(n % 10) + 1]>>

\* The characters of f"{x:.2f}": the sign, the integer part, a dot and two
\* decimals.
fmt2_text(x) ==
    LET f == fmt2(x)
    IN  (IF f.sign = "-" THEN <<"-">> ELSE <<>>)
            \o Numeral(f.cents \div 100) \o <<".">>
            \o <<DigitChars[((f.cents \div 10) % 10) + 1], DigitChars[(f.cents % 10) + 1]>>

\* key_string with the coordinates cut to one decimal.
key_string_1f(lat, lon, endpoint) ==
    LET n == normalize_coordinates(lat, lon)
        one(x) == SubSeq(fmt2_text(x), 1, Len(fmt2_text(x)) - 1)
    IN  one(n[1]) \o <<"_">> \o one(n[2]) \o <<"_">> \o endpoint

\* The characters of the key string
\* f"{norm_lat:.2f}_{norm_lon:.2f}_{endpoint}", endpoint given as its
\* characters.
key_string(lat, lon, endpoint) ==
    LET n == normalize_coordinates(lat, lon)
    IN  fmt2_text(n[1]) \o <<"_">> \o fmt2_text(n[2]) \o <<"_">> \o endpoint

\* The content of a cache file.  kind is
\*   "record"     the JSON object written by save_cached_data
\*   "truncated"  text that json.load rejects (JSONDecodeError)
\*   "notobject"  valid JSON that is not an object, such as [] or 1
CacheRecord(nlat, nlon, endpoint, t, data) ==
    [kind |-> "record", lat |-> nlat, lon |-> nlon, endpoint |-> endpoint,
     cached_at |-> t, data |-> data]

CorruptFile(kind) ==
    [kind |-> kind, lat |-> Float(0, FALSE), lon |-> Float(0, FALSE),
     endpoint |-> "", cached_at |-> 0, data |-> NoData]

CorruptKinds == {"truncated", "notobject"}

Remove(st, keys) == [k \in DOMAIN st \ keys |-> st[k]]

\* json.load on the content of a file.
json_load(f) ==
    CASE f.kind = "record" -> "dict"
      [] f.kind = "truncated" -> "JSONDecodeError"
      [] OTHER -> "not_dict"

(***************************************************************************)
(* storage.py: the user data file.                                         *)
(***************************************************************************)
\* The content of user_data.json: kind is "missing" (no file), "object" (a
\* JSON object, users its members by user id), "truncated" (text json.load
\* rejects) or "notobject" (valid JSON that is not an object).
UserFile(kind, users) == [kind |-> kind, users |-> users]

\* What bot.py keeps of a user; NoLocation is the user of whom nothing is
\* kept ({} or {'location': None}).
NoLocation == [set |-> FALSE, lat |-> Float(0, FALSE), lon |-> Float(0, FALSE)]

Location(nlat, nlon) == [set |-> TRUE, lat |-> nlat, lon |-> nlon]

\* load_user: the member of the user in the object loaded, {} (none) when
\* the object has none, there is no file or json.load rejects the text.
\* all_users.get on a JSON value that is not an object raises
\* AttributeError, which no except clause names.
load_user(f, user_id) ==
    CASE f.kind \in {"missing", "truncated"} -> [ret |-> "return", data |-> NoLocation]
      [] f.kind = "notobject" -> [ret |-> "raise", data |-> NoLocation]
      [] OTHER ->
           [ret |-> "return",
            data |-> IF user_id \in DOMAIN f.users THEN f.users[user_id]
                     ELSE NoLocation]

\* save_user under the I/O outcome io of the write: load the object (an
\* empty one when there is no file or json.load rejects the text), set the
\* member of the user, write the object back in place.  The assignment
\* all_users[str(user_id)] = data on a JSON value that is not an object
\* raises TypeError before the file is opened for writing.
save_user(f, user_id, data, io) ==
    LET all_users == IF f.kind = "object" THEN f.users ELSE <<>>
        updated == [v \in DOMAIN all_users \cup {user_id} |->
                       IF v = user_id THEN data ELSE all_users[v]]
    IN  CASE f.kind = "notobject" -> [ret |-> "raise", file |-> f]
          [] io = "ok" -> [ret |-> "return", file |-> UserFile("object", updated)]
          [] io = "open_error" -> [ret |-> "raise", file |-> f]
          [] OTHER -> [ret |-> "raise", file |-> UserFile("truncated", <<>>)]

\* load_all_users and the loop of bot.py over its items: the table the
\* process starts with.  The loop over a JSON value that is not an object
\* raises, which bot.py logs, and the table stays empty.
load_all_users(f) == IF f.kind = "object" THEN f.users ELSE <<>>

(***************************************************************************)
(* storage.py: the cache store.  Each operator takes the store st and the  *)
(* clock reading t and gives the call's outcome: how it ended, what it     *)
(* returned and the store it leaves.                                       *)
(***************************************************************************)

\* get_cached_data with the age compared by <=: a record of exactly the
\* maximum age is still a hit.
get_cached_data_le(st, t, lat, lon, endpoint) ==
    LET k == get_cache_key(lat, lon, endpoint)
    IN  IF k \notin DOMAIN st
        THEN [ret |-> "miss", data |-> NoData, store |-> st]
        ELSE IF json_load(st[k]) = "JSONDecodeError"
        THEN [ret |-> "miss", data |-> NoData, store |-> st]
        ELSE IF json_load(st[k]) = "not_dict"
        THEN [ret |-> "raise", data |-> NoData, store |-> st]
        ELSE IF t - st[k].cached_at <= CACHE_MAX_AGE_SECONDS
        THEN [ret |-> "hit", data |-> st[k].data, store |-> st]
        ELSE [ret |-> "miss", data |-> NoData, store |-> Remove(st, {k})]

\* get_cached_data without the os.remove of the expired record.
get_cached_data_keep(st, t, lat, lon, endpoint) ==
    LET k == get_cache_key(lat, lon, endpoint)
    IN  IF k \notin DOMAIN st
        THEN [ret |-> "miss", data |-> NoData, store |-> st]
        ELSE IF json_load(st[k]) = "JSONDecodeError"
        THEN [ret |-> "miss", data |-> NoData, store |-> st]
        ELSE IF json_load(st[k]) = "not_dict"
        THEN [ret |-> "raise", data |-> NoData, store |-> st]
        ELSE IF t - st[k].cached_at < CACHE_MAX_AGE_SECONDS
        THEN [ret |-> "hit", data |-> st[k].data, store |-> st]
        ELSE [ret |-> "miss", data |-> NoData, store |-> st]

\* get_cached_data: a missing file and a file json.load rejects are a miss;
\* cache_data.get on JSON that is not an object raises AttributeError, which
\* the except clause does not name; a record younger than the maximum age
\* is a hit; an older one is removed and is a miss.
get_cached_data(st, t, lat, lon, endpoint) ==
    LET k == get_cache_key(lat, lon, endpoint)
    IN  IF k \notin DOMAIN st
        THEN [ret |-> "miss", data |-> NoData, store |-> st]
        ELSE IF json_load(st[k]) = "JSONDecodeError"
        THEN [ret |-> "miss", data |-> NoData, store |-> st]
        ELSE IF json_load(st[k]) = "not_dict"
        THEN [ret |-> "raise", data |-> NoData, store |-> st]
        ELSE IF t - st[k].cached_at < CACHE_MAX_AGE_SECONDS
        THEN [ret |-> "hit", data |-> st[k].data, store |-> st]
        ELSE [ret |-> "miss", data |-> NoData, store |-> Remove(st, {k})]

\* save_cached_data that never stamps the record: cached_at stays 0.
save_cached_data_unstamped(st, t, lat, lon, endpoint, data) ==
    LET k == get_cache_key(lat, lon, endpoint)
        n == normalize_coordinates(lat, lon)
        rec == CacheRecord(n[1], n[2], endpoint, 0, data)
    IN  [x \in DOMAIN st \cup {k} |-> IF x = k THEN rec ELSE st[x]]

\* save_cached_data: overwrite the file of the key with a record holding the
\* normalized coordinates, the endpoint, the time and the payload.
save_cached_data(st, t, lat, lon, endpoint, data) ==
    LET k == get_cache_key(lat, lon, endpoint)
        n == normalize_coordinates(lat, lon)
        rec == CacheRecord(n[1], n[2], endpoint, t, data)
    IN  [x \in DOMAIN st \cup {k} |-> IF x = k THEN rec ELSE st[x]]

\* The outcomes of the file I/O of one save_cached_data: it succeeds, open()
\* raises OSError, or json.dump raises OSError after open() has truncated
\* the file.
IoOutcomes == {"ok", "open_error", "write_error"}

\* save_cached_data under the I/O outcome io: how the call ends and the store
\* it leaves.  Nothing in save_cached_data catches the OSError.
try_save_cached_data(st, t, lat, lon, endpoint, data, io) ==
    LET k == get_cache_key(lat, lon, endpoint)
    IN  CASE io = "ok" ->
               [ret |-> "return", store |-> save_cached_data(st, t, lat, lon, endpoint, data)]
          [] io = "open_error" ->
               [ret |-> "raise", store |-> st]
          [] OTHER ->
               [ret |-> "raise",
                store |-> [x \in DOMAIN st \cup {k} |->
                              IF x = k THEN CorruptFile("truncated") ELSE st[x]]]

\* clear_user_cache with "air_pollution" missing from its list of endpoints.
clear_user_cache_two(st, old_lat, old_lon) ==
    Remove(st, {get_cache_key(old_lat, old_lon, e) : e \in {"weather", "forecast"}})

\* clear_user_cache that removes every file of the cell, whatever its endpoint.
clear_user_cache_cell(st, old_lat, old_lon) ==
    LET n == normalize_coordinates(old_lat, old_lon)
    IN  Remove(st, {k \in DOMAIN st : k[1] = fmt2(n[1]) /\ k[2] = fmt2(n[2])})

\* clear_user_cache: remove the files of the three endpoints at the given
\* coordinates, those that exist.
clear_user_cache(st, old_lat, old_lon) ==
    Remove(st, {get_cache_key(old_lat, old_lon, e) : e \in CoordEndpoints})

\* The files one pass of the loop of cleanup_old_cache removes among keys:
\* the records of age >= the maximum age and the files json.load rejects.
SweepRemoves(st, t, keys) ==
    {k \in keys :
        \/ json_load(st[k]) = "JSONDecodeError"
        \/ /\ json_load(st[k]) = "dict"
           /\ t - st[k].cached_at >= CACHE_MAX_AGE_SECONDS}

\* cleanup_old_cache: the outcomes of one sweep.  cache_data.get on JSON that
\* is not an object raises AttributeError, which neither except clause names:
\* the sweep ends there, having handled the files os.listdir gave before it
\* (any set of the other files, the order being arbitrary).
cleanup_old_cache(st, t) ==
    LET bad == {k \in DOMAIN st : json_load(st[k]) = "not_dict"}
        rest == DOMAIN st \ bad
    IN  IF bad = {}
        THEN {[ret |-> "return",
               count |-> Cardinality(SweepRemoves(st, t, rest)),
               store |-> Remove(st, SweepRemoves(st, t, rest))]}
        ELSE {[ret |-> "raise",
               count |-> 0,
               store |-> Remove(st, SweepRemoves(st, t, seen))] :
                 seen \in SUBSET rest}

(***************************************************************************)
(* storage.py under storage errors.  locked is the set of files for which  *)
(* os.remove raises OSError, unreadable the set of files for which open()  *)
(* raises OSError.                                                         *)
(***************************************************************************)
\* endpoints = ["weather", "forecast", "air_pollution"]
endpoints == <<"weather", "forecast", "air_pollution">>

\* clear_user_cache with the try around the loop: the first OSError ends it.
clear_endpoint_outer(acc, old_lat, old_lon, endpoint, locked) ==
    LET k == get_cache_key(old_lat, old_lon, endpoint)
    IN  IF k \in DOMAIN acc.store /\ k \in locked
        THEN [acc EXCEPT !.tried = Append(@, endpoint), !.ret = "return"]
        ELSE [acc EXCEPT !.tried = Append(@, endpoint),
                         !.store = Remove(@, {k})]

\* One pass of the loop of clear_user_cache: the file of the endpoint is
\* removed when it exists; the OSError of os.remove is passed over.
clear_endpoint(acc, old_lat, old_lon, endpoint, locked) ==
    LET k == get_cache_key(old_lat, old_lon, endpoint)
    IN  IF k \in DOMAIN acc.store /\ k \in locked
        THEN [acc EXCEPT !.tried = Append(@, endpoint)]
        ELSE [acc EXCEPT !.tried = Append(@, endpoint),
                         !.store = Remove(@, {k})]

RECURSIVE clear_endpoints(_, _, _, _, _)
clear_endpoints(acc, old_lat, old_lon, todo, locked) ==
    IF todo = <<>> \/ acc.ret # ""
    THEN [acc EXCEPT !.ret = "return"]
    ELSE clear_endpoints(clear_endpoint(acc, old_lat, old_lon, Head(todo), locked),
                         old_lat, old_lon, Tail(todo), locked)

\* clear_user_cache: how it ends, the store it leaves and the endpoints whose
\* deletion it tried.
clear_user_cache_io(st, old_lat, old_lon, locked) ==
    clear_endpoints([ret |-> "", store |-> st, tried |-> <<>>],
                    old_lat, old_lon, endpoints, locked)

\* The except clause of lines 220-226: os.remove, its OSError passed over.
remove_corrupt(acc, f, locked) ==
    IF f \in locked
    THEN [acc EXCEPT !.failed = @ \cup {f}]
    ELSE [acc EXCEPT !.store = Remove(@, {f}), !.count = @ + 1]

\* One pass of the loop of cleanup_old_cache without the inner try of lines
\* 222-226: the OSError of the second os.remove reaches the outer except
\* clause and ends the sweep.
sweep_file_abort(acc, t, f, unreadable, locked) ==
    LET seen == [acc EXCEPT !.visited = Append(@, f)]
        gone == remove_corrupt(seen, f, locked)
        over == IF f \in locked THEN [gone EXCEPT !.ret = "return"] ELSE gone
    IN  IF f \in unreadable THEN over
        ELSE IF json_load(acc.store[f]) = "JSONDecodeError" THEN over
        ELSE IF json_load(acc.store[f]) = "not_dict" THEN [seen EXCEPT !.ret = "raise"]
        ELSE IF t - acc.store[f].cached_at >= CACHE_MAX_AGE_SECONDS THEN over
        ELSE seen

\* One pass of the loop of cleanup_old_cache, lines 207-226, on the file f.
\* An OSError of open() and a JSONDecodeError lead to the except clause; an
\* expired record is removed and counted, and when that os.remove raises
\* OSError the except clause tries it again; JSON that is not an object
\* raises AttributeError, which no except clause names.
sweep_file(acc, t, f, unreadable, locked) ==
    LET seen == [acc EXCEPT !.visited = Append(@, f)]
    IN  IF f \in unreadable THEN remove_corrupt(seen, f, locked)
        ELSE IF json_load(acc.store[f]) = "JSONDecodeError"
        THEN remove_corrupt(seen, f, locked)
        ELSE IF json_load(acc.store[f]) = "not_dict" THEN [seen EXCEPT !.ret = "raise"]
        ELSE IF t - acc.store[f].cached_at >= CACHE_MAX_AGE_SECONDS
        THEN remove_corrupt(seen, f, locked)
        ELSE seen

RECURSIVE sweep_files(_, _, _, _, _)
sweep_files(acc, t, files, unreadable, locked) ==
    IF files = <<>> \/ acc.ret # ""
    THEN [acc EXCEPT !.ret = IF @ = "" THEN "return" ELSE @]
    ELSE sweep_files(sweep_file(acc, t, Head(files), unreadable, locked),
                     t, Tail(files), unreadable, locked)

\* The listings os.listdir can give of the directory: its files in any order.
Listings(st) ==
    {l \in [1..Cardinality(DOMAIN st) -> DOMAIN st] :
        \A i, j \in DOMAIN l : l[i] = l[j] => i = j}

\* cleanup_old_cache on the listing files: how it ends, the count it returns,
\* the store it leaves, the files it visited and the files whose os.remove
\* failed.  No listing (os.listdir raised OSError): it returns 0.
cleanup_old_cache_io(st, t, listdir, files, unreadable, locked) ==
    LET start == [ret |-> "", count |-> 0, store |-> st, visited |-> <<>>,
                  failed |-> {}]
    IN  IF listdir = "OSError" THEN [start EXCEPT !.ret = "return"]
        ELSE sweep_files(start, t, files, unreadable, locked)

(***************************************************************************)
(* weather_app.py and bot.py: the gateway and the location tracker.        *)
(***************************************************************************)
\* No city name: None (or the empty string, equally false).
NoName == ""

\* data['_local_name'] = city_name.
set_local_name(data, city_name) == [data EXCEPT !.local_name = city_name]

\* The outcome of a gateway call: how it ended, what it returned, the store
\* it leaves and whether it called the remote API.
Raised(st, fetched) == [ret |-> "raise", data |-> NoData, store |-> st, fetched |-> fetched]

Returned(data, st, fetched) == [ret |-> "return", data |-> data, store |-> st, fetched |-> fetched]

\* What one requests.get gives: status 0 stands for no response (requests.get
\* raised RequestException); body tells whether response.json() is empty.
Reply(status, body) == [status |-> status, body |-> body]

\* The retry test with every error status counted as a server error.
should_retry_4xx(response) ==
    response.status = 0 \/ response.status >= 400

\* response is None or response.status_code >= 500 or
\* response.status_code == 429
should_retry(response) ==
    response.status = 0 \/ response.status >= 500 \/ response.status = 429

\* The test of the delay with the limit 8.
may_retry_8(delay) == delay <= 8

\* if delay <= 4
may_retry(delay) == delay <= 4

\* check_status_code: the message of the Exception it raises, "" when it
\* returns.
check_status_code(status_code) ==
    IF status_code # 200
    THEN IF status_code = 400 THEN "bad request"
         ELSE IF status_code = 401 THEN "unauthorized"
         ELSE "api error"
    ELSE ""

\* make_api_request on the replies the server gives to the attempts, one
\* after the other: how the call ends, the message of its exception, the
\* number of calls of requests.get and the arguments of time.sleep.  The
\* call is "pending" when it asks for another attempt after the last reply.
RECURSIVE make_api_request(_, _)
make_api_request(replies, delay) ==
    IF replies = <<>>
    THEN [ret |-> "pending", msg |-> "", attempts |-> 0, slept |-> <<>>]
    ELSE IF should_retry(Head(replies))
    THEN IF may_retry(delay)
         THEN LET r == make_api_request(Tail(replies), delay * 2)
              IN  [r EXCEPT !.attempts = @ + 1, !.slept = <<delay>> \o @]
         ELSE [ret |-> "ConnectionError", msg |-> "", attempts |-> 1, slept |-> <<>>]
    ELSE IF check_status_code(Head(replies).status) # ""
    THEN [ret |-> "Exception", msg |-> check_status_code(Head(replies).status),
          attempts |-> 1, slept |-> <<>>]
    ELSE IF Head(replies).body = "empty"
    THEN [ret |-> "Exception", msg |-> "error_msg", attempts |-> 1, slept |-> <<>>]
    ELSE [ret |-> "return", msg |-> "", attempts |-> 1, slept |-> <<>>]

\* get_weather_by_coordinates that saves the record again on a hit.
get_weather_by_coordinates_resave(st, t, lat, lon, city_name, resp, io) ==
    LET c == get_cached_data(st, t, lat, lon, "weather")
        named == IF city_name # NoName THEN set_local_name(resp, city_name) ELSE resp
        s == try_save_cached_data(c.store, t, lat, lon, "weather", named, io)
    IN  IF c.ret = "raise" THEN Raised(c.store, FALSE)
        ELSE IF c.ret = "hit"
        THEN Returned(IF city_name # NoName THEN set_local_name(c.data, city_name)
                      ELSE c.data,
                      save_cached_data(c.store, t, lat, lon, "weather", c.data), FALSE)
        ELSE IF resp = NoData THEN Raised(c.store, TRUE)
        ELSE IF s.ret = "raise" THEN Raised(s.store, TRUE)
        ELSE Returned(named, s.store, TRUE)

\* get_weather_by_coordinates.  resp is what make_api_request gives: a
\* response, or NoData when it raises.  On a hit the name is set in the
\* loaded payload and nothing is written; on a miss the name is set in the
\* response before the response is saved.
get_weather_by_coordinates(st, t, lat, lon, city_name, resp, io) ==
    LET c == get_cached_data(st, t, lat, lon, "weather")
        named == IF city_name # NoName THEN set_local_name(resp, city_name) ELSE resp
        s == try_save_cached_data(c.store, t, lat, lon, "weather", named, io)
    IN  IF c.ret = "raise" THEN Raised(c.store, FALSE)
        ELSE IF c.ret = "hit"
        THEN Returned(IF city_name # NoName THEN set_local_name(c.data, city_name)
                      ELSE c.data,
                      c.store, FALSE)
        ELSE IF resp = NoData THEN Raised(c.store, TRUE)
        ELSE IF s.ret = "raise" THEN Raised(s.store, TRUE)
        ELSE Returned(named, s.store, TRUE)

\* get_hourly_weather without the lookup: every call fetches and saves.
get_hourly_weather_nocache(st, t, latitude, longitude, resp, io) ==
    LET s == try_save_cached_data(st, t, latitude, longitude, "forecast", resp, io)
    IN  IF resp = NoData THEN Raised(st, TRUE)
        ELSE IF s.ret = "raise" THEN Raised(s.store, TRUE)
        ELSE Returned(resp, s.store, TRUE)

\* get_hourly_weather.
get_hourly_weather(st, t, latitude, longitude, resp, io) ==
    LET c == get_cached_data(st, t, latitude, longitude, "forecast")
        s == try_save_cached_data(c.store, t, latitude, longitude, "forecast", resp, io)
    IN  IF c.ret = "raise" THEN Raised(c.store, FALSE)
        ELSE IF c.ret = "hit" THEN Returned(c.data, c.store, FALSE)
        ELSE IF resp = NoData THEN Raised(c.store, TRUE)
        ELSE IF s.ret = "raise" THEN Raised(s.store, TRUE)
        ELSE Returned(resp, s.store, TRUE)

\* The response of the air_pollution endpoint with body b.
Envelope(b) == Response("envelope", b)

\* data['list'][0].get('components', {}).
components(data) == [data EXCEPT !.shape = "components"]

\* get_air_pollution that saves before it looks at what the remote call gave.
get_air_pollution_savefail(st, t, latitude, longitude, resp, io) ==
    LET c == get_cached_data(st, t, latitude, longitude, "air_pollution")
        s == try_save_cached_data(c.store, t, latitude, longitude, "air_pollution", resp, io)
    IN  IF c.ret = "raise" THEN Raised(c.store, FALSE)
        ELSE IF c.ret = "hit"
        THEN IF c.data.shape = "envelope"
             THEN Returned(components(c.data), c.store, FALSE)
             ELSE Raised(c.store, FALSE)
        ELSE IF resp = NoData THEN Raised(s.store, TRUE)
        ELSE IF s.ret = "raise" THEN Raised(s.store, TRUE)
        ELSE Returned(components(resp), s.store, TRUE)

\* get_air_pollution that hands a cached payload back whole.
get_air_pollution_whole(st, t, latitude, longitude, resp, io) ==
    LET c == get_cached_data(st, t, latitude, longitude, "air_pollution")
        s == try_save_cached_data(c.store, t, latitude, longitude, "air_pollution", resp, io)
    IN  IF c.ret = "raise" THEN Raised(c.store, FALSE)
        ELSE IF c.ret = "hit" THEN Returned(c.data, c.store, FALSE)
        ELSE IF resp = NoData THEN Raised(c.store, TRUE)
        ELSE IF s.ret = "raise" THEN Raised(s.store, TRUE)
        ELSE Returned(components(resp), s.store, TRUE)

\* get_air_pollution: the response is saved as it came and the mapping of
\* the components is taken out of it for the caller, on a hit out of the
\* payload loaded (KeyError when that payload has no key 'list').
get_air_pollution(st, t, latitude, longitude, resp, io) ==
    LET c == get_cached_data(st, t, latitude, longitude, "air_pollution")
        s == try_save_cached_data(c.store, t, latitude, longitude, "air_pollution", resp, io)
    IN  IF c.ret = "raise" THEN Raised(c.store, FALSE)
        ELSE IF c.ret = "hit"
        THEN IF c.data.shape = "envelope"
             THEN Returned(components(c.data), c.store, FALSE)
             ELSE Raised(c.store, FALSE)
        ELSE IF resp = NoData THEN Raised(c.store, TRUE)
        ELSE IF s.ret = "raise" THEN Raised(s.store, TRUE)
        ELSE Returned(components(resp), s.store, TRUE)

\* The city texts get_coordinates is called with, as their characters:
\* spellings of the city "c" that differ in letter case and in whitespace at
\* the ends, and another city.
Cities == {<<"c">>, <<"C">>, <<" ", "c">>, <<"C", " ">>, <<" ", "C", " ">>, <<"d">>}

\* The characters str.strip() removes.
Whitespace == {" "}

\* str.lower(), character by character.
lower(s) ==
    [i \in 1..Len(s) |->
        CASE s[i] = "C" -> "c"
          [] s[i] = "D" -> "d"
          [] OTHER -> s[i]]

RECURSIVE lstrip(_)
lstrip(s) ==
    IF Len(s) > 0 /\ s[1] \in Whitespace THEN lstrip(SubSeq(s, 2, Len(s))) ELSE s

RECURSIVE rstrip(_)
rstrip(s) ==
    IF Len(s) > 0 /\ s[Len(s)] \in Whitespace THEN rstrip(SubSeq(s, 1, Len(s) - 1)) ELSE s

\* str.strip(): the text without the whitespace at its two ends.
strip(s) == rstrip(lstrip(s))

\* The string made of the characters of s.
RECURSIVE text(_)
text(s) == IF Len(s) = 0 THEN "" ELSE s[1] \o text(SubSeq(s, 2, Len(s)))

\* cache_key taken from the city text as it came.
cache_key_raw(city) == text(city)

\* cache_key = city.lower().strip()
cache_key(city) == text(strip(lower(city)))

geocoding_endpoint(city) == "geocoding_" \o city

\* {"lat": lat, "lon": lon, "city_name": city_name} made of data[0] of the
\* response.
geocode(resp) == [resp EXCEPT !.shape = "geocode"]

\* get_coordinates that asks the remote API whatever the cache holds.
get_coordinates_refetch(st, t, city, resp, io) ==
    LET e == geocoding_endpoint(cache_key(city))
        c == get_cached_data(st, t, Sentinel[1], Sentinel[2], e)
        s == try_save_cached_data(c.store, t, Sentinel[1], Sentinel[2], e, geocode(resp), io)
    IN  IF c.ret = "raise" THEN Raised(c.store, FALSE)
        ELSE IF resp = NoData THEN Raised(c.store, TRUE)
        ELSE IF s.ret = "raise" THEN Raised(s.store, TRUE)
        ELSE Returned(geocode(resp), s.store, TRUE)

\* get_coordinates: the record is filed under the placeholder (0, 0) and
\* the endpoint tag of the normalized city text.
get_coordinates(st, t, city, resp, io) ==
    LET e == geocoding_endpoint(cache_key(city))
        c == get_cached_data(st, t, Sentinel[1], Sentinel[2], e)
        s == try_save_cached_data(c.store, t, Sentinel[1], Sentinel[2], e, geocode(resp), io)
    IN  IF c.ret = "raise" THEN Raised(c.store, FALSE)
        ELSE IF c.ret = "hit" THEN Returned(c.data, c.store, FALSE)
        ELSE IF resp = NoData THEN Raised(c.store, TRUE)
        ELSE IF s.ret = "raise" THEN Raised(s.store, TRUE)
        ELSE Returned(geocode(resp), s.store, TRUE)

\* A pair (min_val, max_val) of the table of standards; the last band of
\* each pollutant has max_val = float('inf').
Range(min_val, max_val) == [min |-> min_val, max |-> max_val, inf |-> FALSE]

RangeInf(min_val) == [min |-> min_val, max |-> min_val, inf |-> TRUE]

\* standards[index]["ranges"], index = 1..5.
standards ==
    << [so2 |-> Range(0, 20), no2 |-> Range(0, 40), pm10 |-> Range(0, 20),
        pm2_5 |-> Range(0, 10), o3 |-> Range(0, 60), co |-> Range(0, 4400)],
       [so2 |-> Range(20, 80), no2 |-> Range(40, 70), pm10 |-> Range(20, 50),
        pm2_5 |-> Range(10, 25), o3 |-> Range(60, 100), co |-> Range(4400, 9400)],
       [so2 |-> Range(80, 250), no2 |-> Range(70, 150), pm10 |-> Range(50, 100),
        pm2_5 |-> Range(25, 50), o3 |-> Range(100, 140), co |-> Range(9400, 12400)],
       [so2 |-> Range(250, 350), no2 |-> Range(150, 200), pm10 |-> Range(100, 200),
        pm2_5 |-> Range(50, 75), o3 |-> Range(140, 180), co |-> Range(12400, 15400)],
       [so2 |-> RangeInf(350), no2 |-> RangeInf(200), pm10 |-> RangeInf(200),
        pm2_5 |-> RangeInf(75), o3 |-> RangeInf(180), co |-> RangeInf(15400)] >>

\* A concentration is a number of halves of a microgram per cubic metre, so
\* that the values between two whole numbers have a representative.
\* The test with both ends of the band included.
in_range_closed(value, r) == 2 * r.min <= value /\ (r.inf \/ value <= 2 * r.max)

\* min_val <= value < max_val
in_range(value, r) == 2 * r.min <= value /\ (r.inf \/ value < 2 * r.max)

\* The inner loop over index = 1..5 with its break: the first index whose
\* band holds the value, 0 when the loop ends without one.
classify(pollutant, value) ==
    LET found == {index \in 1..5 :
                    /\ pollutant \in DOMAIN standards[index]
                    /\ in_range(value, standards[index][pollutant])}
    IN  IF found = {} THEN 0
        ELSE CHOOSE index \in found : \A j \in found : index <= j

\* analyze_air_pollution: the index of each pollutant classified and the
\* overall index (the name of the status and the texts of the details are
\* read off these indices).
analyze_air_pollution(air_pollution_data) ==
    LET classified == {q \in DOMAIN air_pollution_data :
                          classify(q, air_pollution_data[q]) # 0}
        pollutant_indices ==
            [q \in classified |-> classify(q, air_pollution_data[q])]
    IN  [overall_index |->
            IF classified = {} THEN 1
            ELSE CHOOSE m \in {pollutant_indices[q] : q \in classified} :
                    \A q \in classified : pollutant_indices[q] <= m,
         pollutant_indices |-> pollutant_indices]

\* update_user_location that passes the new coordinates to clear_user_cache.
update_user_location_new(st, ud, user_id, lat, lon) ==
    LET n == normalize_coordinates(lat, lon)
        old == ud[user_id]
        evict == /\ old.set
                 /\ \/ abs_diff_gt_001(old.lat, n[1])
                    \/ abs_diff_gt_001(old.lon, n[2])
    IN  [store |-> IF evict THEN clear_user_cache(st, n[1], n[2]) ELSE st,
         user_data |-> [ud EXCEPT ![user_id].set = TRUE, ![user_id].lat = n[1],
                                  ![user_id].lon = n[2]],
         cleared |-> evict]

\* update_user_location: evict the cell of the stored location when the new
\* normalized coordinates differ from it by more than 0.01 in an axis, then
\* store the new normalized coordinates (save_user writes them to the file).
update_user_location(st, ud, user_id, lat, lon) ==
    LET n == normalize_coordinates(lat, lon)
        old == ud[user_id]
        evict == /\ old.set
                 /\ \/ abs_diff_gt_001(old.lat, n[1])
                    \/ abs_diff_gt_001(old.lon, n[2])
    IN  [store |-> IF evict THEN clear_user_cache(st, old.lat, old.lon) ELSE st,
         user_data |-> [ud EXCEPT ![user_id].set = TRUE, ![user_id].lat = n[1],
                                  ![user_id].lon = n[2]],
         cleared |-> evict]

\* The startup sweep with an except clause that names OSError only.
startup_cleanup_oserror(o) ==
    IF o.ret = "raise"
    THEN [ret |-> "raise", logged |-> ""]
    ELSE [ret |-> "return", logged |-> IF o.count > 0 THEN "info" ELSE ""]

\* bot.py lines 58-64, the sweep at process start, given the outcome o of
\* cleanup_old_cache: the count is logged when it is positive, and except
\* Exception logs the error of a sweep that raised.
startup_cleanup(o) ==
    IF o.ret = "raise"
    THEN [ret |-> "return", logged |-> "error"]
    ELSE [ret |-> "return", logged |-> IF o.count > 0 THEN "info" ELSE ""]

\* periodic_cache_cleanup, the job the scheduler runs every hour, given the
\* outcome o of cleanup_old_cache.
periodic_cache_cleanup(o) ==
    IF o.ret = "raise"
    THEN [ret |-> "return", logged |-> "error"]
    ELSE [ret |-> "return", logged |-> IF o.count > 0 THEN "info" ELSE ""]

(***************************************************************************)
(* The state machine.                                                      *)
(***************************************************************************)
NoOp ==
    [op |-> "none", user |-> 0, lat |-> Float(0, FALSE), lon |-> Float(0, FALSE),
     endpoint |-> "", arg |-> NoData, cached_at |-> 0, ret |-> "", val |-> NoData,
     removed |-> 0, cleared |-> FALSE, old |-> NoLocation]

EmptyStore == [k \in {} |-> CorruptFile("truncated")]

\* No call of the gateway is in progress.
NoCalls == [c \in {} |-> NoOp]

\* The arguments the store is called with: the weather endpoint at four raw
\* coordinates, the other coordinate endpoints at one of them, and the
\* geocoding endpoint at the placeholder.
StorePoints == {PA1, PA2, PZ, PN}

StoreInputs ==
    (StorePoints \X {"weather"}) \cup ({PA1} \X CoordEndpoints)
        \cup {<<Sentinel, GeoEndpoint>>}

\* The directory outlives the process: at start it is empty or holds a file
\* of invalid content left there.
InitStores ==
    {EmptyStore} \cup
    {[k \in {get_cache_key(i[1][1], i[1][2], i[2])} |-> CorruptFile(c)] :
        i \in StoreInputs, c \in CorruptKinds}

Init ==
    /\ store \in InitStores
    /\ now = 0
    /\ user_data = [u \in Users |-> NoLocation]
    /\ last = NoOp
    /\ calls = NoCalls
    /\ proc = "running"
    /\ jobs = <<>>
    /\ user_file = UserFile("missing", <<>>)
    /\ fsm = <<>>

Removed(st1, st2) == Cardinality(DOMAIN st1 \ DOMAIN st2)

GetCachedData(p, e) ==
    LET r == get_cached_data(store, now, p[1], p[2], e)
    IN  /\ store' = r.store
        /\ last' = [NoOp EXCEPT !.op = "get", !.lat = p[1], !.lon = p[2],
                                !.endpoint = e, !.ret = r.ret,
                                !.val = r.data, !.removed = Removed(store, r.store)]
        /\ UNCHANGED <<now, user_data, calls, proc, jobs, user_file, fsm>>

\* The number of files in the directory is capped at MaxRecords.
SaveCachedData(p, e, d) ==
    /\ \/ get_cache_key(p[1], p[2], e) \in DOMAIN store
       \/ Cardinality(DOMAIN store) < MaxRecords
    /\ store' = save_cached_data(store, now, p[1], p[2], e, d)
    /\ last' = [NoOp EXCEPT !.op = "save", !.lat = p[1], !.lon = p[2],
                            !.endpoint = e, !.arg = d, !.cached_at = now,
                            !.ret = "return"]
    /\ UNCHANGED <<now, user_data, calls, proc, jobs, user_file, fsm>>

ClearUserCache(p) ==
    /\ store' = clear_user_cache(store, p[1], p[2])
    /\ last' = [NoOp EXCEPT !.op = "clear", !.lat = p[1], !.lon = p[2],
                            !.ret = "return", !.removed = Removed(store, store')]
    /\ UNCHANGED <<now, user_data, calls, proc, jobs, user_file, fsm>>

CleanupOldCache ==
    \E o \in cleanup_old_cache(store, now) :
        /\ store' = o.store
        /\ last' = [NoOp EXCEPT !.op = "cleanup", !.ret = o.ret,
                                !.val = o.count, !.removed = Removed(store, o.store)]
        /\ UNCHANGED <<now, user_data, calls, proc, jobs, user_file, fsm>>

\* Time passes between two operations.
Tick ==
    /\ \E t \in TimePoints : t > now /\ now' = t
    /\ last' = NoOp
    /\ UNCHANGED <<store, user_data, calls, proc, jobs, user_file, fsm>>

Next ==
    \/ \E i \in StoreInputs : GetCachedData(i[1], i[2])
    \/ \E i \in StoreInputs, d \in Payloads : SaveCachedData(i[1], i[2], d)
    \/ \E p \in StorePoints : ClearUserCache(p)
    \/ CleanupOldCache
    \/ Tick

Spec == Init /\ [][Next]_vars

(***************************************************************************)
(* The location tracker: bot.py's process_location handler.                *)
(***************************************************************************)
\* process_location: look the weather up at the raw coordinates, then store
\* them as the user's location; an error of the lookup is answered with a
\* message and leaves the location as it was.  The writes of the record and
\* of the user file succeed here, and the number of files in the directory
\* is capped at MaxRecords.
ProcessLocation(u, p, resp) ==
    \E g \in {get_weather_by_coordinates(store, now, p[1], p[2], NoName, resp, "ok")} :
    \E up \in {update_user_location(g.store, user_data, u, p[1], p[2])} :
    LET done == [NoOp EXCEPT !.op = "process_location", !.user = u, !.lat = p[1],
                             !.lon = p[2], !.endpoint = "weather", !.arg = resp,
                             !.old = user_data[u]]
    IN  /\ Cardinality(DOMAIN g.store) <= MaxRecords
        /\ IF g.ret = "raise"
           THEN /\ store' = g.store
                /\ user_data' = user_data
                /\ last' = [done EXCEPT !.ret = "raise",
                                        !.removed = Removed(store, g.store)]
                /\ user_file' = user_file
           ELSE /\ store' = up.store
                /\ user_data' = up.user_data
                /\ last' = [done EXCEPT !.ret = "return", !.val = g.data,
                                        !.cleared = up.cleared,
                                        !.removed = Removed(g.store, up.store)]
                /\ user_file' = save_user(user_file, u, up.user_data[u], "ok").file
        /\ UNCHANGED <<now, calls, proc, jobs, fsm>>

InitLoc ==
    /\ store = EmptyStore
    /\ now = 0
    /\ user_data = [u \in Users |-> NoLocation]
    /\ last = NoOp
    /\ calls = NoCalls
    /\ proc = "running"
    /\ jobs = <<>>
    /\ user_file = UserFile("missing", <<>>)
    /\ fsm = <<>>

NextLoc ==
    \/ \E u \in Users, p \in RawPoints, resp \in Payloads \cup {NoData} :
          ProcessLocation(u, p, resp)
    \/ Tick

SpecLoc == InitLoc /\ [][NextLoc]_vars

(***************************************************************************)
(* Two users of one cache: process_location after a restart.               *)
(***************************************************************************)
CellUsers == {1, 2}

CellPoints == {PA1, PA2, PZ, PN}

\* The user table as the start of the process loads it from the user file:
\* each user without a location or with the normalized coordinates an
\* earlier update stored.  The cache directory is empty.
InitCell ==
    /\ store = EmptyStore
    /\ now = 0
    /\ user_data \in [CellUsers ->
          {NoLocation} \cup
          {Location(normalize_coordinates(p[1], p[2])[1],
                    normalize_coordinates(p[1], p[2])[2]) : p \in CellPoints}]
    /\ last = NoOp
    /\ calls = NoCalls
    /\ proc = "running"
    /\ jobs = <<>>
    /\ user_file = UserFile("object", user_data)
    /\ fsm = <<>>

NextCell ==
    \/ \E u \in CellUsers, p \in CellPoints, resp \in Payloads \cup {NoData} :
          ProcessLocation(u, p, resp)
    \/ Tick

SpecCell == InitCell /\ [][NextCell]_vars

(***************************************************************************)
(* The user data file: update_user_location on a file of any content.     *)
(***************************************************************************)
FileUsers == {1, 2}

\* The file as the process finds it: absent, of a text that is not JSON, of
\* JSON that is not an object, or an object with a member for some users.
UserFiles ==
    {UserFile(k, <<>>) : k \in {"missing", "truncated", "notobject"}} \cup
    {UserFile("object", f) :
        f \in UNION {[us -> {NoLocation, Location(round2(PA1[1]), round2(PA1[2]))}] :
                        us \in SUBSET FileUsers}}

\* The table is what the start of the process made of the file.
InitFile ==
    /\ store = EmptyStore
    /\ now = 0
    /\ user_file \in UserFiles
    /\ user_data = [u \in FileUsers |->
                       IF u \in DOMAIN load_all_users(user_file)
                       THEN load_all_users(user_file)[u] ELSE NoLocation]
    /\ last = NoOp
    /\ calls = NoCalls
    /\ proc = "running"
    /\ jobs = <<>>
    /\ fsm = <<>>

\* update_user_location(u, lat, lon, city) under the I/O outcome io of the
\* write of the user file: the table is updated before save_user is called.
UpdateUserLocation(u, p, io) ==
    \E up \in {update_user_location(store, user_data, u, p[1], p[2])} :
    \E sv \in {save_user(user_file, u, up.user_data[u], io)} :
        /\ store' = up.store
        /\ user_data' = up.user_data
        /\ user_file' = sv.file
        /\ last' = [op |-> "update_user_location", user |-> u, lat |-> p[1],
                    lon |-> p[2], io |-> io, ret |-> sv.ret,
                    cleared |-> up.cleared, old |-> user_data[u]]
        /\ UNCHANGED <<now, calls, proc, jobs, fsm>>

NextFile ==
    \E u \in FileUsers, p \in {PA1, PB, PZ}, io \in IoOutcomes :
        UpdateUserLocation(u, p, io)

SpecFile == InitFile /\ [][NextFile]_vars

(***************************************************************************)
(* The gateway: the four functions of weather_app.py called one at a time. *)
(***************************************************************************)
GwPoints == {PA1}

CityNames == {NoName, "n"}

\* The gateway functions together are called with one city text.
GwCities == {<<"c">>}

\* What the remote API answers to the request of an endpoint; NoData when
\* make_api_request raises.
Responses(endpoint) ==
    {NoData} \cup
    {IF endpoint = "air_pollution" THEN Envelope(b) ELSE Response("object", b) :
        b \in 1..MaxPayload}

NoCall ==
    [op |-> "none", lat |-> Float(0, FALSE), lon |-> Float(0, FALSE),
     endpoint |-> "", city |-> <<>>, city_name |-> NoName, resp |-> NoData, io |-> "",
     found |-> "", ret |-> "", val |-> NoData, fetched |-> FALSE]

\* One call of a gateway function on (lat, lon) with the outcome given; city
\* is the text get_coordinates was called with.  found is
\* what get_cached_data gave at the start of the call; io is kept when the
\* call reached save_cached_data.  The number of files in the directory is
\* capped at MaxRecords.
GatewayCall(op, p, endpoint, city, city_name, resp, io, outcome) ==
    \E g \in {outcome} :
    \E found \in {get_cached_data(store, now, p[1], p[2], endpoint).ret} :
    LET saving == found = "miss" /\ resp # NoData
    IN  /\ saving \/ io = "ok"
        /\ Cardinality(DOMAIN g.store) <= MaxRecords
        /\ store' = g.store
        /\ last' = [op |-> op, lat |-> p[1], lon |-> p[2], endpoint |-> endpoint,
                    city |-> city, city_name |-> city_name,
                    resp |-> IF found = "miss" THEN resp ELSE NoData,
                    io |-> IF saving THEN io ELSE "",
                    found |-> found, ret |-> g.ret, val |-> g.data,
                    fetched |-> g.fetched]
        /\ UNCHANGED <<now, user_data, calls, proc, jobs, user_file, fsm>>

GetWeatherByCoordinates(p, city_name, resp, io) ==
    GatewayCall("get_weather_by_coordinates", p, "weather", <<>>, city_name, resp, io,
                get_weather_by_coordinates(store, now, p[1], p[2], city_name, resp, io))

GetHourlyWeather(p, resp, io) ==
    GatewayCall("get_hourly_weather", p, "forecast", <<>>, NoName, resp, io,
                get_hourly_weather(store, now, p[1], p[2], resp, io))

GetAirPollution(p, resp, io) ==
    GatewayCall("get_air_pollution", p, "air_pollution", <<>>, NoName, resp, io,
                get_air_pollution(store, now, p[1], p[2], resp, io))

GetCoordinates(city, resp, io) ==
    GatewayCall("get_coordinates", Sentinel, geocoding_endpoint(cache_key(city)), city,
                NoName, resp, io,
                get_coordinates(store, now, city, resp, io))

\* Time passes between two calls.
TickGw ==
    /\ \E t \in TimePoints : t > now /\ now' = t
    /\ last' = NoCall
    /\ UNCHANGED <<store, user_data, calls, proc, jobs, user_file, fsm>>

InitGw ==
    /\ store = EmptyStore
    /\ now = 0
    /\ user_data = [u \in Users |-> NoLocation]
    /\ last = NoCall
    /\ calls = NoCalls
    /\ proc = "running"
    /\ jobs = <<>>
    /\ user_file = UserFile("missing", <<>>)
    /\ fsm = <<>>

NextGw ==
    \/ \E p \in GwPoints, n \in CityNames, r \in Responses("weather"), io \in IoOutcomes :
          GetWeatherByCoordinates(p, n, r, io)
    \/ \E p \in GwPoints, r \in Responses("forecast"), io \in IoOutcomes :
          GetHourlyWeather(p, r, io)
    \/ \E p \in GwPoints, r \in Responses("air_pollution"), io \in IoOutcomes :
          GetAirPollution(p, r, io)
    \/ \E c \in GwCities, r \in Responses("geocoding"), io \in IoOutcomes :
          GetCoordinates(c, r, io)
    \/ TickGw

SpecGw == InitGw /\ [][NextGw]_vars

(***************************************************************************)
(* Geocoding by name: get_coordinates called with every city text.         *)
(***************************************************************************)
NextGeo ==
    \/ \E c \in Cities, r \in Responses("geocoding"), io \in IoOutcomes :
          GetCoordinates(c, r, io)
    \/ TickGw

SpecGeo == InitGw /\ [][NextGeo]_vars

(***************************************************************************)
(* Callers that share the directory.  storage.py takes no lock and writes  *)
(* a record in place, so a call of get_weather_by_coordinates is a         *)
(* sequence of steps on the shared files: the lookup, the remote call,     *)
(* open(cache_path, "w") and json.dump with the close of the file.  Inside *)
(* one bot process the event loop runs a call to its end before the next   *)
(* one starts; the steps of two callers interleave when the directory is   *)
(* used by more than one process or thread.                                *)
(***************************************************************************)
Callers == {1, 2}

ConcPoints == {PA1, PA2}

\* A caller's call: where it is, its arguments, the record it is writing,
\* whether its open file is still the file of the key (attached) and whether
\* another caller has written to that file since this one opened it.
IdleCall ==
    [pc |-> "idle", lat |-> Float(0, FALSE), lon |-> Float(0, FALSE),
     data |-> NoData, cached_at |-> 0, attached |-> FALSE, overlaid |-> FALSE]

CallKey(c) == get_cache_key(calls[c].lat, calls[c].lon, "weather")

\* The callers that hold the file of key k open for writing.
Writers(k) ==
    {c \in Callers : calls[c].pc = "write" /\ calls[c].attached /\ CallKey(c) = k}

\* os.remove of the files gone takes the name from the open files: what
\* their writers write is never seen under the key.
Detach(cs, gone) ==
    [c \in Callers |->
        IF cs[c].pc = "write" /\ get_cache_key(cs[c].lat, cs[c].lon, "weather") \in gone
        THEN [cs[c] EXCEPT !.attached = FALSE]
        ELSE cs[c]]

NoStep ==
    [op |-> "none", caller |-> 0, lat |-> Float(0, FALSE), lon |-> Float(0, FALSE),
     data |-> NoData, cached_at |-> 0, ret |-> "", attached |-> FALSE,
     half_written |-> FALSE]

\* Lines 59-64 of weather_app.py: get_cached_data, and the return on a hit.
\* half_written: the file read was one that a caller holds open for writing
\* and that json.load rejects.
Lookup(c, p) ==
    LET k == get_cache_key(p[1], p[2], "weather")
        r == get_cached_data(store, now, p[1], p[2], "weather")
    IN  /\ calls[c].pc = "idle"
        /\ store' = r.store
        /\ calls' = [Detach(calls, DOMAIN store \ DOMAIN r.store) EXCEPT
                        ![c] = IF r.ret = "miss"
                               THEN [IdleCall EXCEPT !.pc = "fetch", !.lat = p[1], !.lon = p[2]]
                               ELSE IdleCall]
        /\ last' = [NoStep EXCEPT !.op = "lookup", !.caller = c, !.lat = p[1],
                                  !.lon = p[2], !.ret = r.ret, !.data = r.data,
                                  !.half_written =
                                      /\ Writers(k) # {}
                                      /\ json_load(store[k]) = "JSONDecodeError"]
        /\ UNCHANGED <<now, user_data, proc, jobs, user_file, fsm>>

\* Lines 67-68: the remote call; the call ends when make_api_request raises.
Fetch(c, resp) ==
    /\ calls[c].pc = "fetch"
    /\ calls' = [calls EXCEPT ![c] = IF resp = NoData THEN IdleCall
                                     ELSE [@ EXCEPT !.pc = "open", !.data = resp]]
    /\ last' = [NoStep EXCEPT !.op = "fetch", !.caller = c, !.data = resp]
    /\ UNCHANGED <<store, now, user_data, proc, jobs, user_file, fsm>>

\* Lines 159-173 of storage.py: the record is made with the time of now and
\* open(cache_path, "w") leaves the file of the key empty.
SaveOpen(c) ==
    LET k == CallKey(c)
    IN  /\ calls[c].pc = "open"
        /\ store' = [x \in DOMAIN store \cup {k} |->
                        IF x = k THEN CorruptFile("truncated") ELSE store[x]]
        /\ calls' = [d \in Callers |->
                        IF d = c
                        THEN [calls[c] EXCEPT !.pc = "write", !.cached_at = now,
                                              !.attached = TRUE, !.overlaid = FALSE]
                        ELSE IF d \in Writers(k)
                        THEN [calls[d] EXCEPT !.overlaid = FALSE]
                        ELSE calls[d]]
        /\ last' = [NoStep EXCEPT !.op = "open", !.caller = c, !.lat = calls[c].lat,
                                  !.lon = calls[c].lon]
        /\ UNCHANGED <<now, user_data, proc, jobs, user_file, fsm>>

\* Line 174 of storage.py and the close of the file: the text of the record
\* is written from the start of the file.  Over the text of another record,
\* which another caller has written since the open, a shorter text leaves
\* the tail of the other text behind it (short), which json.load rejects.
SaveWrite(c, short) ==
    LET k == CallKey(c)
        n == normalize_coordinates(calls[c].lat, calls[c].lon)
        rec == CacheRecord(n[1], n[2], "weather", calls[c].cached_at, calls[c].data)
    IN  /\ calls[c].pc = "write"
        /\ short => (calls[c].attached /\ calls[c].overlaid /\ store[k] # rec)
        /\ store' = IF ~calls[c].attached THEN store
                    ELSE [store EXCEPT ![k] = IF short THEN CorruptFile("truncated")
                                              ELSE rec]
        /\ calls' = [d \in Callers |->
                        IF d = c THEN IdleCall
                        ELSE IF calls[c].attached /\ d \in Writers(k)
                        THEN [calls[d] EXCEPT !.overlaid = TRUE]
                        ELSE calls[d]]
        /\ last' = [NoStep EXCEPT !.op = "save", !.caller = c, !.lat = calls[c].lat,
                                  !.lon = calls[c].lon, !.data = calls[c].data,
                                  !.cached_at = calls[c].cached_at,
                                  !.attached = calls[c].attached, !.ret = "return"]
        /\ UNCHANGED <<now, user_data, proc, jobs, user_file, fsm>>

\* The janitor: one cleanup_old_cache.
Janitor ==
    \E o \in cleanup_old_cache(store, now) :
        /\ store' = o.store
        /\ calls' = Detach(calls, DOMAIN store \ DOMAIN o.store)
        /\ last' = [NoStep EXCEPT !.op = "cleanup", !.ret = o.ret,
                                  !.half_written =
                                      \E k \in DOMAIN store :
                                          /\ Writers(k) # {}
                                          /\ json_load(store[k]) = "JSONDecodeError"]
        /\ UNCHANGED <<now, user_data, proc, jobs, user_file, fsm>>

TickConc ==
    /\ \E t \in TimePoints : t > now /\ now' = t
    /\ last' = NoStep
    /\ UNCHANGED <<store, user_data, calls, proc, jobs, user_file, fsm>>

InitConc ==
    /\ store = EmptyStore
    /\ now = 0
    /\ user_data = [u \in Users |-> NoLocation]
    /\ last = NoStep
    /\ calls = [c \in Callers |-> IdleCall]
    /\ proc = "running"
    /\ jobs = <<>>
    /\ user_file = UserFile("missing", <<>>)
    /\ fsm = <<>>

NextConc ==
    \/ \E c \in Callers, p \in ConcPoints : Lookup(c, p)
    \/ \E c \in Callers, r \in Payloads \cup {NoData} : Fetch(c, r)
    \/ \E c \in Callers : SaveOpen(c)
    \/ \E c \in Callers, short \in BOOLEAN : SaveWrite(c, short)
    \/ Janitor
    \/ TickConc

SpecConc == InitConc /\ [][NextConc]_vars

(***************************************************************************)
(* The key builder on its own: _get_cache_key applied to one input.        *)
(***************************************************************************)
\* Raw latitudes and longitudes, in thousandths of a degree.
KeyLats == {-14, -4, 4, 96, 104, 12344}

KeyLons == {0, 1004}

\* The city text of a geocoding tag: any characters, among them the
\* delimiter, a digit and a dot.
CityChars == {"_", "0", ".", "c"}

CityTexts == UNION {[1..n -> CityChars] : n \in 0..MaxCityLen}

\* The endpoint tags, as their characters.
WeatherTag == <<"w", "e", "a", "t", "h", "e", "r">>

ForecastTag == <<"f", "o", "r", "e", "c", "a", "s", "t">>

AirPollutionTag == <<"a", "i", "r", "_", "p", "o", "l", "l", "u", "t", "i", "o", "n">>

GeocodingTag(city) == <<"g", "e", "o", "c", "o", "d", "i", "n", "g", "_">> \o city

EndpointTags ==
    {WeatherTag, ForecastTag, AirPollutionTag} \cup {GeocodingTag(c) : c \in CityTexts}

KeyInputs ==
    {[lat |-> Float(a, FALSE), lon |-> Float(b, FALSE), endpoint |-> e] :
        a \in KeyLats, b \in KeyLons, e \in EndpointTags}

InitKey ==
    /\ store = EmptyStore
    /\ now = 0
    /\ user_data = [u \in Users |-> NoLocation]
    /\ calls = NoCalls
    /\ proc = "running"
    /\ jobs = <<>>
    /\ user_file = UserFile("missing", <<>>)
    /\ fsm = <<>>
    /\ \E i \in KeyInputs : last = [op |-> "call", input |-> i, key |-> <<>>]

GetCacheKey ==
    /\ last.op = "call"
    /\ last' = [last EXCEPT !.op = "key",
                            !.key = key_string(last.input.lat, last.input.lon,
                                               last.input.endpoint)]
    /\ UNCHANGED <<store, now, user_data, calls, proc, jobs, user_file, fsm>>

NextKey == GetCacheKey

SpecKey == InitKey /\ [][NextKey]_vars

(***************************************************************************)
(* The bot process and its janitor.  The module body of bot.py sweeps the  *)
(* cache once, main() adds periodic_cache_cleanup to the scheduler as an   *)
(* hourly job, and the handlers then write and evict records.  The sweeps  *)
(* and the evictions run under any storage errors.                         *)
(***************************************************************************)
BotInputs == {PA1} \X CoordEndpoints

BotKeys == {get_cache_key(i[1][1], i[1][2], i[2]) : i \in BotInputs}

NoJob ==
    [op |-> "none", ret |-> "", logged |-> "", sweep_ret |-> "", count |-> 0,
     listdir |-> "", files |-> <<>>, visited |-> <<>>, failed |-> {}, removed |-> 0,
     lat |-> Float(0, FALSE), lon |-> Float(0, FALSE), locked |-> {}, tried |-> <<>>]

\* The record of a sweep that ended with the outcome o under the wrapper's
\* outcome w.
SweepJob(op, listdir, files, o, w) ==
    [NoJob EXCEPT !.op = op, !.ret = w.ret, !.logged = w.logged,
                  !.sweep_ret = o.ret, !.count = o.count, !.listdir = listdir,
                  !.files = files, !.visited = o.visited, !.failed = o.failed,
                  !.removed = Removed(store, o.store)]

\* The storage errors of one sweep: os.listdir fails, or it lists the files
\* in some order and open() and os.remove fail for some of them.
SweepErrors ==
    {[listdir |-> "OSError", files |-> <<>>, unreadable |-> {}, locked |-> {}]} \cup
    {[listdir |-> "ok", files |-> l, unreadable |-> u, locked |-> k] :
        l \in Listings(store), u \in SUBSET DOMAIN store, k \in SUBSET DOMAIN store}

\* The sweep at process start.  An exception that left the module body
\* would end the process.
StartupCleanup(e) ==
    \E o \in {cleanup_old_cache_io(store, now, e.listdir, e.files, e.unreadable, e.locked)} :
    \E w \in {startup_cleanup(o)} :
        /\ proc = "starting"
        /\ store' = o.store
        /\ proc' = IF w.ret = "raise" THEN "crashed" ELSE "running"
        /\ last' = SweepJob("startup_cleanup", e.listdir, e.files, o, w)
        /\ UNCHANGED <<now, user_data, calls, jobs, user_file, fsm>>

\* One run of the hourly job.
PeriodicCacheCleanup(e) ==
    \E o \in {cleanup_old_cache_io(store, now, e.listdir, e.files, e.unreadable, e.locked)} :
    \E w \in {periodic_cache_cleanup(o)} :
        /\ proc = "running"
        /\ store' = o.store
        /\ last' = SweepJob("periodic_cache_cleanup", e.listdir, e.files, o, w)
        /\ UNCHANGED <<now, user_data, calls, proc, jobs, user_file, fsm>>

\* A handler writes a record.
HandlerSave(p, e, d) ==
    /\ proc = "running"
    /\ SaveCachedData(p, e, d)

\* A handler evicts the cell of p; os.remove fails for the files in locked.
HandlerClear(p, locked) ==
    \E r \in {clear_user_cache_io(store, p[1], p[2], locked)} :
        /\ proc = "running"
        /\ store' = r.store
        /\ last' = [NoJob EXCEPT !.op = "clear_user_cache", !.ret = r.ret,
                                  !.lat = p[1], !.lon = p[2], !.locked = locked,
                                  !.tried = r.tried,
                                  !.removed = Removed(store, r.store)]
        /\ UNCHANGED <<now, user_data, calls, proc, jobs, user_file, fsm>>

TickBot ==
    /\ \E t \in TimePoints : t > now /\ now' = t
    /\ last' = NoJob
    /\ UNCHANGED <<store, user_data, calls, proc, jobs, user_file, fsm>>

InitBot ==
    /\ store \in {st \in InitStores : DOMAIN st \subseteq BotKeys}
    /\ now = 0
    /\ user_data = [u \in Users |-> NoLocation]
    /\ last = NoJob
    /\ calls = NoCalls
    /\ proc = "starting"
    /\ jobs = <<>>
    /\ user_file = UserFile("missing", <<>>)
    /\ fsm = <<>>

NextBot ==
    \/ \E e \in SweepErrors : StartupCleanup(e)
    \/ \E e \in SweepErrors : PeriodicCacheCleanup(e)
    \/ \E i \in BotInputs, d \in Payloads : HandlerSave(i[1], i[2], d)
    \/ \E i \in BotInputs, locked \in SUBSET DOMAIN store : HandlerClear(i[1], locked)
    \/ TickBot

SpecBot == InitBot /\ [][NextBot]_vars

\* The hourly job keeps firing, and its runs without a storage error do.
NoSweepErrors ==
    {e \in SweepErrors : e.listdir = "ok" /\ e.unreadable = {} /\ e.locked = {}}

SpecJanitor ==
    /\ InitBot
    /\ [][NextBot]_vars
    /\ WF_vars(\E e \in NoSweepErrors : PeriodicCacheCleanup(e))

(***************************************************************************)
(* The remote call on its own: make_api_request against a server that      *)
(* gives one reply per attempt.                                            *)
(***************************************************************************)
Replies ==
    {Reply(0, "none"), Reply(200, "data"), Reply(200, "empty")} \cup
    {Reply(c, "error") : c \in {400, 401, 404, 429, 499, 500}}

RECURSIVE Sum(_)
Sum(q) == IF q = <<>> THEN 0 ELSE Head(q) + Sum(Tail(q))

InitReq ==
    /\ store = EmptyStore
    /\ now = 0
    /\ user_data = [u \in Users |-> NoLocation]
    /\ calls = NoCalls
    /\ proc = "running"
    /\ jobs = <<>>
    /\ user_file = UserFile("missing", <<>>)
    /\ fsm = <<>>
    /\ \E q \in [1..MaxReplies -> Replies] :
          last = [op |-> "call", replies |-> q, ret |-> "", msg |-> "",
                  attempts |-> 0, slept |-> <<>>]

\* make_api_request(url, error_msg): the clock advances by what it slept.
MakeApiRequest ==
    \E r \in {make_api_request(last.replies, 1)} :
        /\ last.op = "call"
        /\ last' = [last EXCEPT !.op = "make_api_request", !.ret = r.ret,
                                !.msg = r.msg, !.attempts = r.attempts,
                                !.slept = r.slept]
        /\ now' = now + Sum(r.slept)
        /\ UNCHANGED <<store, user_data, calls, proc, jobs, user_file, fsm>>

NextReq == MakeApiRequest

SpecReq == InitReq /\ [][NextReq]_vars

(***************************************************************************)
(* The air quality analysis on its own: analyze_air_pollution applied to   *)
(* a mapping of components.                                                *)
(***************************************************************************)
\* The keys of the components: the six pollutants of the table and "no",
\* which the table does not list.
Pollutants == {"so2", "no2", "pm10", "pm2_5", "o3", "co", "no"}

\* The concentrations tried for a pollutant: each lower end of a band (those
\* of so2 for "no"), the value half a microgram below it (below zero for
\* the first band) and the value half a microgram above it.
Concentrations(q) ==
    LET starts == {standards[index][IF q = "no" THEN "so2" ELSE q].min : index \in 1..5}
    IN  {2 * b + d : b \in starts, d \in {-1, 0, 1}}

\* The components handed in: a mapping of at most MaxPollutants keys, each
\* to one of the concentrations tried for it.
InitAir ==
    /\ store = EmptyStore
    /\ now = 0
    /\ user_data = [u \in Users |-> NoLocation]
    /\ calls = NoCalls
    /\ proc = "running"
    /\ jobs = <<>>
    /\ user_file = UserFile("missing", <<>>)
    /\ fsm = <<>>
    /\ \E keys \in SUBSET Pollutants :
          /\ Cardinality(keys) <= MaxPollutants
          /\ \E d \in [keys -> UNION {Concentrations(q) : q \in Pollutants}] :
                /\ \A q \in keys : d[q] \in Concentrations(q)
                /\ last = [op |-> "components", data |-> d, overall_index |-> 0,
                           pollutant_indices |-> <<>>]

AnalyzeAirPollution ==
    \E r \in {analyze_air_pollution(last.data)} :
        /\ last.op = "components"
        /\ last' = [last EXCEPT !.op = "analyze_air_pollution",
                                !.overall_index = r.overall_index,
                                !.pollutant_indices = r.pollutant_indices]
        /\ UNCHANGED <<store, now, user_data, calls, proc, jobs, user_file, fsm>>

NextAir == AnalyzeAirPollution

SpecAir == InitAir /\ [][NextAir]_vars

(***************************************************************************)
(* The chat: the handlers of bot.py that set up notifications and take     *)
(* coordinates typed in, the scheduler with its jobs, and the restart of   *)
(* the process.                                                            *)
(***************************************************************************)
\* A number of hours, in tenths of an hour: an interval typed in, or the
\* default of 2 hours.  far tells a number so large (80000000, say) that
\* time.time() + interval * 3600 lies beyond the year 9999, where
\* datetime.fromtimestamp raises ValueError.  Interval(0, FALSE) stands for
\* no interval.
Interval(tenths, far) == [tenths |-> tenths, far |-> far]

\* time.time() + (interval * 3600), in seconds.
after(t, interval) == [at |-> t + interval.tenths * 360, far |-> interval.far]

\* What user_data holds of a user: the main location (set, lat, lon) and
\* notification_data (nd tells whether the key is there) with its enabled,
\* location (nloc), interval and next_run (0 when absent).  known tells
\* whether user_id is in user_data at all.
NoUser ==
    [set |-> FALSE, lat |-> Float(0, FALSE), lon |-> Float(0, FALSE),
     known |-> FALSE, nd |-> FALSE, enabled |-> FALSE, nloc |-> NoLocation,
     interval |-> Interval(0, FALSE), next_run |-> after(0, Interval(0, FALSE))]

\* notif_data.get('interval', 2)
get_interval(d) == IF d.interval = Interval(0, FALSE) THEN Interval(20, FALSE) ELSE d.interval

\* schedule_user_notification: the job of the user is removed when there is
\* one, and a user with notifications enabled gets a new one that starts at
\* next_run, or in 10 s when next_run is not in the future.
\* datetime.fromtimestamp(next_run) raises ValueError for a next_run that is
\* far, after the old job has been removed.
schedule_user_notification(js, ud, t, user_id) ==
    LET job_id == <<"weather_notif", user_id>>
        at == {i \in 1..Len(js) : js[i].id = job_id}
        first == CHOOSE i \in at : \A j \in at : i <= j
        removed == IF at = {} THEN js
                   ELSE SubSeq(js, 1, first - 1) \o SubSeq(js, first + 1, Len(js))
        d == ud[user_id]
    IN  IF ~d.known \/ ~d.nd \/ ~d.enabled
        THEN [ret |-> "return", jobs |-> removed]
        ELSE IF d.next_run.far
        THEN [ret |-> "ValueError", jobs |-> removed]
        ELSE [ret |-> "return",
              jobs |-> Append(removed,
                          [id |-> job_id, hours |-> get_interval(d),
                           start |-> IF d.next_run.at > t THEN d.next_run.at
                                     ELSE t + 10])]

\* The loop of main over user_data: a job for each user with notifications
\* enabled; an exception of schedule_user_notification leaves main.
RECURSIVE restore_jobs(_, _, _, _)
restore_jobs(js, ud, t, todo) ==
    IF todo = {} THEN [ret |-> "return", jobs |-> js]
    ELSE LET user_id == CHOOSE u \in todo : TRUE
             r == IF ud[user_id].nd /\ ud[user_id].enabled
                  THEN schedule_user_notification(js, ud, t, user_id)
                  ELSE [ret |-> "return", jobs |-> js]
         IN  IF r.ret # "return" THEN r
             ELSE restore_jobs(r.jobs, ud, t, todo \ {user_id})

\* What a handler of the chat did: ret is "return" when it completed and
\* "raise" when an exception left it, sent is the message it answered with
\* ("" for none) and lookup tells whether it called the gateway.
Handled(op, user_id, arg, io, ret, sent, lookup) ==
    [op |-> op, user |-> user_id, arg |-> arg, io |-> io, ret |-> ret,
     sent |-> sent, lookup |-> lookup]

\* The process ends and is started again: the module body loads the table
\* from the user file; jobs and conversation states are kept in memory only.
Restart ==
    /\ proc \in {"running", "crashed"}
    /\ proc' = "starting"
    /\ jobs' = <<>>
    /\ fsm' = [u \in Users |-> ""]
    /\ user_data' = [u \in Users |->
                        IF u \in DOMAIN load_all_users(user_file)
                        THEN load_all_users(user_file)[u] ELSE NoUser]
    /\ last' = Handled("restart", 0, "", "", "return", "", FALSE)
    /\ UNCHANGED <<store, now, calls, user_file>>

\* The sweep of the module body and main: the cleanup job is added and the
\* notification jobs are restored.  An exception that leaves main ends the
\* process.
Main ==
    \E o \in cleanup_old_cache(store, now) :
    \E r \in {restore_jobs(<<[id |-> <<"periodic_cache_cleanup", 0>>,
                              hours |-> Interval(10, FALSE), start |-> now]>>,
                           user_data, now, {u \in Users : user_data[u].known})} :
        /\ proc = "starting"
        /\ store' = o.store
        /\ jobs' = r.jobs
        /\ proc' = IF r.ret = "return" THEN "running" ELSE "crashed"
        /\ last' = Handled("main", 0, "", "", IF r.ret = "return" THEN "return" ELSE "raise",
                           "", FALSE)
        /\ UNCHANGED <<now, user_data, calls, user_file, fsm>>

\* cmd_start and notifications_menu: a user the table does not know gets
\* the entry {'location': None}, which is not written to the file.
CmdStart(u) ==
    /\ proc = "running"
    /\ user_data' = [user_data EXCEPT ![u].known = TRUE]
    /\ last' = Handled("cmd_start", u, "", "", "return", "menu", FALSE)
    /\ UNCHANGED <<store, now, calls, proc, jobs, user_file, fsm>>

\* toggle_notifications that enables without asking for a location.
ToggleNotifications_nocheck(u, io) ==
    \E d \in {user_data[u]} :
    LET is_enabled == ~d.enabled
        current_loc == [set |-> d.set, lat |-> d.lat, lon |-> d.lon]
        on == [d EXCEPT !.nd = TRUE, !.enabled = TRUE,
                        !.nloc = IF d.nloc.set THEN d.nloc ELSE current_loc,
                        !.interval = get_interval(d),
                        !.next_run = after(now, get_interval(d))]
        off == [d EXCEPT !.nd = TRUE, !.enabled = FALSE]
        ud == [user_data EXCEPT ![u] = IF is_enabled THEN on ELSE off]
        sv == save_user(user_file, u, ud[u], io)
        sc == schedule_user_notification(jobs, ud, now, u)
        r == IF ~d.known
             THEN [ret |-> "raise", sent |-> "", ud |-> user_data, uf |-> user_file,
                   js |-> jobs]
             ELSE IF sv.ret = "raise"
             THEN [ret |-> "raise", sent |-> "", ud |-> ud, uf |-> sv.file, js |-> jobs]
             ELSE IF sc.ret # "return"
             THEN [ret |-> "raise", sent |-> "", ud |-> ud, uf |-> sv.file,
                   js |-> sc.jobs]
             ELSE [ret |-> "return", sent |-> "keyboard", ud |-> ud, uf |-> sv.file,
                   js |-> sc.jobs]
    IN  /\ proc = "running"
        /\ user_data' = r.ud
        /\ user_file' = r.uf
        /\ jobs' = r.js
        /\ last' = Handled("toggle_notifications", u, "", io, r.ret, r.sent, FALSE)
        /\ UNCHANGED <<store, now, calls, proc, fsm>>

\* toggle_notifications under the I/O outcome io of the write of the user
\* file.  user_data[user_id] raises KeyError for a user the table does not
\* know; nothing in the handler catches an exception.
ToggleNotifications(u, io) ==
    \E d \in {user_data[u]} :
    LET is_enabled == ~d.enabled
        current_loc == [set |-> d.set, lat |-> d.lat, lon |-> d.lon]
        on == [d EXCEPT !.nd = TRUE, !.enabled = TRUE,
                        !.nloc = IF d.nloc.set THEN d.nloc ELSE current_loc,
                        !.interval = get_interval(d),
                        !.next_run = after(now, get_interval(d))]
        off == [d EXCEPT !.nd = TRUE, !.enabled = FALSE]
        ud == [user_data EXCEPT ![u] = IF is_enabled THEN on ELSE off]
        sv == save_user(user_file, u, ud[u], io)
        sc == schedule_user_notification(jobs, ud, now, u)
        r == IF ~d.known
             THEN [ret |-> "raise", sent |-> "", ud |-> user_data, uf |-> user_file,
                   js |-> jobs]
             ELSE IF is_enabled /\ ~d.nloc.set /\ ~d.set
             THEN [ret |-> "return", sent |-> "alert", ud |-> user_data,
                   uf |-> user_file, js |-> jobs]
             ELSE IF sv.ret = "raise"
             THEN [ret |-> "raise", sent |-> "", ud |-> ud, uf |-> sv.file, js |-> jobs]
             ELSE IF sc.ret # "return"
             THEN [ret |-> "raise", sent |-> "", ud |-> ud, uf |-> sv.file,
                   js |-> sc.jobs]
             ELSE [ret |-> "return", sent |-> "keyboard", ud |-> ud, uf |-> sv.file,
                   js |-> sc.jobs]
    IN  /\ proc = "running"
        /\ user_data' = r.ud
        /\ user_file' = r.uf
        /\ jobs' = r.js
        /\ last' = Handled("toggle_notifications", u, "", io, r.ret, r.sent, FALSE)
        /\ UNCHANGED <<store, now, calls, proc, fsm>>

SetNotificationCityStart(u) ==
    /\ proc = "running"
    /\ fsm' = [fsm EXCEPT ![u] = "waiting_for_notification_city"]
    /\ last' = Handled("set_notification_city_start", u, "", "", "return", "prompt", FALSE)
    /\ UNCHANGED <<store, now, user_data, calls, proc, jobs, user_file>>

\* set_notification_city_finish: the city typed in is looked up (resp is
\* what the remote API gives) and stored as the location of the
\* notifications.  Whatever exception is raised after the text was read,
\* the KeyError of user_data[user_id] included, is answered with the
\* message that the city was not found, and the state is kept.
SetNotificationCityFinish(u, resp, io) ==
    \E d \in {user_data[u]} :
    \E g \in {get_coordinates(store, now, <<"c">>, resp, "ok")} :
    LET ud == [user_data EXCEPT ![u].nd = TRUE,
                                ![u].nloc = Location(PA1[1], PA1[2])]
        sc1 == IF d.enabled THEN schedule_user_notification(jobs, ud, now, u)
               ELSE [ret |-> "return", jobs |-> jobs]
        sv == save_user(user_file, u, ud[u], io)
        sc2 == IF d.enabled THEN schedule_user_notification(sc1.jobs, ud, now, u)
               ELSE [ret |-> "return", jobs |-> sc1.jobs]
        r == IF g.ret = "raise" \/ ~d.known
             THEN [sent |-> "not_found", ud |-> user_data, uf |-> user_file, js |-> jobs]
             ELSE IF sc1.ret # "return"
             THEN [sent |-> "not_found", ud |-> ud, uf |-> user_file, js |-> sc1.jobs]
             ELSE IF sv.ret = "raise"
             THEN [sent |-> "not_found", ud |-> ud, uf |-> sv.file, js |-> sc1.jobs]
             ELSE IF sc2.ret # "return"
             THEN [sent |-> "not_found", ud |-> ud, uf |-> sv.file, js |-> sc2.jobs]
             ELSE [sent |-> "city_set", ud |-> ud, uf |-> sv.file, js |-> sc2.jobs]
    IN  /\ proc = "running"
        /\ fsm[u] = "waiting_for_notification_city"
        /\ Cardinality(DOMAIN g.store) <= MaxRecords
        /\ store' = g.store
        /\ user_data' = r.ud
        /\ user_file' = r.uf
        /\ jobs' = r.js
        /\ fsm' = IF r.sent = "city_set" THEN [fsm EXCEPT ![u] = ""] ELSE fsm
        /\ last' = Handled("set_notification_city_finish", u, resp, io, "return",
                           r.sent, TRUE)
        /\ UNCHANGED <<now, calls, proc>>

SetNotificationIntervalStart(u) ==
    /\ proc = "running"
    /\ fsm' = [fsm EXCEPT ![u] = "waiting_for_interval"]
    /\ last' = Handled("set_notification_interval_start", u, "", "", "return", "prompt",
                       FALSE)
    /\ UNCHANGED <<store, now, user_data, calls, proc, jobs, user_file>>

\* set_notification_interval_finish with the number typed in (interval; a
\* text that is no number ends as a number <= 0 does): the interval and
\* next_run are stored and written, and the job is scheduled anew when
\* notifications are enabled.  The handler catches ValueError only.
SetNotificationIntervalFinish(u, interval, io) ==
    \E d \in {user_data[u]} :
    LET ud == [user_data EXCEPT ![u].nd = TRUE, ![u].interval = interval,
                                ![u].next_run = after(now, interval)]
        sv == save_user(user_file, u, ud[u], io)
        sc == IF d.enabled THEN schedule_user_notification(jobs, ud, now, u)
              ELSE [ret |-> "return", jobs |-> jobs]
        r == IF interval.tenths <= 0 /\ ~interval.far
             THEN [ret |-> "return", sent |-> "not_positive", ud |-> user_data,
                   uf |-> user_file, js |-> jobs]
             ELSE IF ~d.known
             THEN [ret |-> "raise", sent |-> "", ud |-> user_data, uf |-> user_file,
                   js |-> jobs]
             ELSE IF sv.ret = "raise"
             THEN [ret |-> "raise", sent |-> "", ud |-> ud, uf |-> sv.file, js |-> jobs]
             ELSE IF sc.ret # "return"
             THEN [ret |-> "return", sent |-> "not_positive", ud |-> ud, uf |-> sv.file,
                   js |-> sc.jobs]
             ELSE [ret |-> "return", sent |-> "interval_set", ud |-> ud, uf |-> sv.file,
                   js |-> sc.jobs]
    IN  /\ proc = "running"
        /\ fsm[u] = "waiting_for_interval"
        /\ user_data' = r.ud
        /\ user_file' = r.uf
        /\ jobs' = r.js
        /\ fsm' = IF r.sent = "interval_set" THEN [fsm EXCEPT ![u] = ""] ELSE fsm
        /\ last' = Handled("set_notification_interval_finish", u, interval, io, r.ret,
                           r.sent, FALSE)
        /\ UNCHANGED <<store, now, calls, proc>>

\* send_weather_notification that looks the weather up before it tests
\* whether notifications are enabled.
SendWeatherNotification_late(u, resp, io) ==
    \E d \in {user_data[u]} :
    \E g \in {get_weather_by_coordinates(store, now, d.nloc.lat, d.nloc.lon, NoName,
                                         resp, "ok")} :
    LET ud == [user_data EXCEPT ![u].next_run = after(now, get_interval(d))]
        sv == save_user(user_file, u, ud[u], io)
        r == IF ~d.known \/ ~d.nd \/ ~d.nloc.set
             THEN [sent |-> "", lookup |-> FALSE, st |-> store, ud |-> user_data,
                   uf |-> user_file]
             ELSE IF g.ret = "raise" \/ ~d.enabled
             THEN [sent |-> "", lookup |-> TRUE, st |-> g.store, ud |-> user_data,
                   uf |-> user_file]
             ELSE IF sv.ret = "raise"
             THEN [sent |-> "", lookup |-> TRUE, st |-> g.store, ud |-> ud,
                   uf |-> sv.file]
             ELSE [sent |-> "notification", lookup |-> TRUE, st |-> g.store, ud |-> ud,
                   uf |-> sv.file]
    IN  /\ proc = "running"
        /\ \E i \in 1..Len(jobs) : jobs[i].id = <<"weather_notif", u>>
        /\ Cardinality(DOMAIN r.st) <= MaxRecords
        /\ store' = r.st
        /\ user_data' = r.ud
        /\ user_file' = r.uf
        /\ last' = Handled("send_weather_notification", u, resp, io, "return", r.sent,
                           r.lookup)
        /\ UNCHANGED <<now, calls, proc, jobs, fsm>>

\* send_weather_notification, run by the job of the user: nothing is done
\* for a user the table does not know or whose notifications are off or
\* have no location; otherwise the weather is looked up, next_run is set
\* and written and the message is sent.  Every exception is caught and
\* logged.
SendWeatherNotification(u, resp, io) ==
    \E d \in {user_data[u]} :
    \E g \in {get_weather_by_coordinates(store, now, d.nloc.lat, d.nloc.lon, NoName,
                                         resp, "ok")} :
    LET ud == [user_data EXCEPT ![u].next_run = after(now, get_interval(d))]
        sv == save_user(user_file, u, ud[u], io)
        r == IF ~d.known \/ ~d.nd \/ ~d.enabled \/ ~d.nloc.set
             THEN [sent |-> "", lookup |-> FALSE, st |-> store, ud |-> user_data,
                   uf |-> user_file]
             ELSE IF g.ret = "raise"
             THEN [sent |-> "", lookup |-> TRUE, st |-> g.store, ud |-> user_data,
                   uf |-> user_file]
             ELSE IF sv.ret = "raise"
             THEN [sent |-> "", lookup |-> TRUE, st |-> g.store, ud |-> ud,
                   uf |-> sv.file]
             ELSE [sent |-> "notification", lookup |-> TRUE, st |-> g.store, ud |-> ud,
                   uf |-> sv.file]
    IN  /\ proc = "running"
        /\ \E i \in 1..Len(jobs) : jobs[i].id = <<"weather_notif", u>>
        /\ Cardinality(DOMAIN r.st) <= MaxRecords
        /\ store' = r.st
        /\ user_data' = r.ud
        /\ user_file' = r.uf
        /\ last' = Handled("send_weather_notification", u, resp, io, "return", r.sent,
                           r.lookup)
        /\ UNCHANGED <<now, calls, proc, jobs, fsm>>

\* geo_search_callback
GeoSearch(u) ==
    /\ proc = "running"
    /\ fsm' = [fsm EXCEPT ![u] = "waiting_for_manual_coordinates"]
    /\ last' = Handled("geo_search", u, "", "", "return", "prompt", FALSE)
    /\ UNCHANGED <<store, now, user_data, calls, proc, jobs, user_file>>

\* One of the parts message.text.replace(',', ' ').split() gives: a word
\* float() rejects, "nan", or the numeral of x thousandths of a degree.
Token(kind, x) == [kind |-> kind, x |-> Float(x, FALSE)]

\* The messages a user sends in the state waiting_for_manual_coordinates:
\* the press of the button, a message that has no text (a photo, a
\* sticker), and texts of no, one, two and three parts.
ManualTexts ==
    LET tokens == {Token("word", 0), Token("nan", 0), Token("number", 64),
                   Token("number", 90001), Token("number", 180001),
                   Token("number", -180001)}
    IN  {[kind |-> "button", parts |-> <<>>], [kind |-> "none", parts |-> <<>>],
         [kind |-> "text", parts |-> <<>>],
         [kind |-> "text", parts |-> <<Token("number", 64)>>],
         [kind |-> "text",
          parts |-> <<Token("number", 64), Token("number", 64), Token("number", 64)>>]}
        \cup {[kind |-> "text", parts |-> <<a, b>>] : a \in tokens, b \in tokens}

\* -90 <= lat <= 90 and -180 <= lon <= 180; every comparison with nan is
\* false.
in_bounds(lat, lon) ==
    /\ lat.kind = "number" /\ -90000 <= lat.x.m /\ lat.x.m <= 90000
    /\ lon.kind = "number" /\ -180000 <= lon.x.m /\ lon.x.m <= 180000

\* process_manual_coordinates: the text is split and tested; the weather
\* is looked up at coordinates that pass (resp is what the remote API
\* gives), the location is stored and written and the state is cleared.
\* except ValueError keeps the state, except Exception clears it; exc is
\* the class of what make_api_request raises when it raises (the
\* JSONDecodeError of response.json() is a ValueError).
ProcessManualCoordinates(u, message, resp, exc, io) ==
    \E lat \in {IF Len(message.parts) = 2 THEN message.parts[1] ELSE Token("word", 0)} :
    \E lon \in {IF Len(message.parts) = 2 THEN message.parts[2] ELSE Token("word", 0)} :
    \E g \in {get_weather_by_coordinates(store, now, lat.x, lon.x, NoName, resp, "ok")} :
    \E up \in {update_user_location(g.store, [user_data EXCEPT ![u].known = TRUE],
                                    u, lat.x, lon.x)} :
    LET sv == save_user(user_file, u, up.user_data[u], io)
        same == [lookup |-> FALSE, st |-> store, ud |-> user_data, uf |-> user_file]
        r == IF message.kind = "button"
             THEN [sent |-> "format_help", keep |-> TRUE] @@ same
             ELSE IF message.kind = "none"
             THEN [sent |-> "error", keep |-> FALSE] @@ same
             ELSE IF Len(message.parts) # 2
             THEN [sent |-> "bad_format", keep |-> TRUE] @@ same
             ELSE IF lat.kind = "word" \/ lon.kind = "word"
             THEN [sent |-> "not_numbers", keep |-> TRUE] @@ same
             ELSE IF ~in_bounds(lat, lon)
             THEN [sent |-> "out_of_range", keep |-> TRUE] @@ same
             ELSE IF g.ret = "raise" /\ g.fetched /\ resp = NoData /\ exc = "ValueError"
             THEN [sent |-> "not_numbers", keep |-> TRUE, lookup |-> TRUE,
                   st |-> g.store, ud |-> user_data, uf |-> user_file]
             ELSE IF g.ret = "raise"
             THEN [sent |-> "error", keep |-> FALSE, lookup |-> TRUE, st |-> g.store,
                   ud |-> user_data, uf |-> user_file]
             ELSE IF sv.ret = "raise"
             THEN [sent |-> "error", keep |-> FALSE, lookup |-> TRUE, st |-> up.store,
                   ud |-> up.user_data, uf |-> sv.file]
             ELSE [sent |-> "saved", keep |-> FALSE, lookup |-> TRUE, st |-> up.store,
                   ud |-> up.user_data, uf |-> sv.file]
    IN  /\ proc = "running"
        /\ fsm[u] = "waiting_for_manual_coordinates"
        /\ r.lookup => Cardinality(DOMAIN g.store) <= MaxRecords
        /\ store' = r.st
        /\ user_data' = r.ud
        /\ user_file' = r.uf
        /\ fsm' = IF r.keep THEN fsm ELSE [fsm EXCEPT ![u] = ""]
        /\ last' = Handled("process_manual_coordinates", u,
                           [message |-> message, resp |-> resp], io, "return", r.sent,
                           r.lookup)
        /\ UNCHANGED <<now, calls, proc, jobs>>

\* Time passes between two handlers: the clock is read at the start of the
\* process and MaxNow seconds later.
TickChat ==
    /\ now < MaxNow
    /\ now' = MaxNow
    /\ last' = Handled("tick", 0, "", "", "return", "", FALSE)
    /\ UNCHANGED <<store, user_data, calls, proc, jobs, user_file, fsm>>

\* The first start of the process: no user file, no cache, no user.
InitChat ==
    /\ store = EmptyStore
    /\ now = 0
    /\ user_data = [u \in Users |-> NoUser]
    /\ last = Handled("none", 0, "", "", "", "", FALSE)
    /\ calls = NoCalls
    /\ proc = "starting"
    /\ jobs = <<>>
    /\ user_file = UserFile("missing", <<>>)
    /\ fsm = [u \in Users |-> ""]

NextChat ==
    \/ Main
    \/ Restart
    \/ \E u \in Users : CmdStart(u)
    \/ \E u \in Users, io \in {"ok", "open_error"} : ToggleNotifications(u, io)
    \/ \E u \in Users : SetNotificationCityStart(u)
    \/ \E u \in Users, resp \in {NoData, Response("object", 1)} :
          SetNotificationCityFinish(u, resp, "ok")
    \/ \E u \in Users : SetNotificationIntervalStart(u)
    \/ \E u \in Users, i \in {Interval(0, FALSE), Interval(1, FALSE), Interval(0, TRUE)} :
          SetNotificationIntervalFinish(u, i, "ok")
    \/ \E u \in Users, resp \in {NoData, Response("object", 1)} :
          SendWeatherNotification(u, resp, "ok")
    \/ \E u \in Users : GeoSearch(u)
    \/ \E u \in Users, resp \in {NoData, Response("object", 1)} :
          ProcessManualCoordinates(u, [kind |-> "text",
                                       parts |-> <<Token("number", 64), Token("number", 64)>>],
                                   resp, "Exception", "ok")
    \/ TickChat

SpecChat == InitChat /\ [][NextChat]_vars

(***************************************************************************)
(* Coordinates typed in: process_manual_coordinates with every message.    *)
(***************************************************************************)
NextManual ==
    \/ Main
    \/ \E u \in Users : GeoSearch(u)
    \/ \E u \in Users, m \in ManualTexts,
          o \in {<<NoData, "Exception", "ok">>, <<NoData, "ValueError", "ok">>,
                 <<Response("object", 1), "Exception", "ok">>,
                 <<Response("object", 1), "Exception", "open_error">>} :
          ProcessManualCoordinates(u, m, o[1], o[2], o[3])
    \/ TickChat

SpecManual == InitChat /\ [][NextManual]_vars


(***************************************************************************)
(* Properties.                                                             *)
(***************************************************************************)
\* Every pair of coordinates a call can receive: the raw ones, the
\* placeholder, and the normalized ones update_user_location stores.
AllCoords ==
    RawPoints \cup {Sentinel}
        \cup {normalize_coordinates(p[1], p[2]) : p \in RawPoints}

\* Both coordinates round to the same 2-decimal value.
SameCell(p, q) ==
    /\ FloatEq(round2(p[1]), round2(q[1]))
    /\ FloatEq(round2(p[2]), round2(q[2]))

LastKey == get_cache_key(last.lat, last.lon, last.endpoint)

\* C1: after a put under one pair of coordinates, a get for the same endpoint
\* under any pair whose latitude and longitude round to the same 2-decimal
\* values is a hit that returns the payload put.  (Stated for the endpoints
\* that are called with coordinates; geocoding is only ever called with the
\* placeholder.)
C1_SameCellSameRecord ==
    (last.op = "save" /\ last.endpoint \in CoordEndpoints) =>
        \A q \in AllCoords :
            SameCell(q, <<last.lat, last.lon>>) =>
                LET g == get_cached_data(store, now, q[1], q[2], last.endpoint)
                IN  g.ret = "hit" /\ g.data = last.arg

\* C2: after save_cached_data(lat, lon, endpoint, P), get_cached_data(lat,
\* lon, endpoint) at every clock reading less than 600 s later, on the store
\* as the put left it, is a hit that returns P.
C2_RoundTrip ==
    last.op = "save" =>
        \A t \in now..(now + CACHE_MAX_AGE_SECONDS - 1) :
            LET g == get_cached_data(store, t, last.lat, last.lon, last.endpoint)
            IN  g.ret = "hit" /\ g.data = last.arg

\* A put has just run and the get 599 s later is a hit.
C2_Witness ==
    /\ last.op = "save"
    /\ get_cached_data(store, now + 599, last.lat, last.lon, last.endpoint).ret = "hit"

\* C3: a get that returns a payload returns the payload of a record younger
\* than 600 s, and in every state a get on a record of age >= 600 s is a miss.
C3_NoStaleHit ==
    /\ (last.op = "get" /\ last.ret = "hit") =>
          /\ LastKey \in DOMAIN store
          /\ store[LastKey].kind = "record"
          /\ now - store[LastKey].cached_at < CACHE_MAX_AGE_SECONDS
          /\ last.val = store[LastKey].data
    /\ \A i \in StoreInputs :
          LET k == get_cache_key(i[1][1], i[1][2], i[2])
          IN  (/\ k \in DOMAIN store
               /\ store[k].kind = "record"
               /\ now - store[k].cached_at >= CACHE_MAX_AGE_SECONDS)
              => get_cached_data(store, now, i[1][1], i[1][2], i[2]).ret = "miss"

\* A get was a hit on a record 599 s old.
C3_Witness ==
    /\ last.op = "get"
    /\ last.ret = "hit"
    /\ now - store[LastKey].cached_at = 599

\* C4: a get that finds a record of age >= 600 s removes that record, and a
\* get removes no other file and changes none.
C4_LazyExpiry ==
    [][last'.op = "get" =>
        LET k == get_cache_key(last'.lat, last'.lon, last'.endpoint)
        IN  /\ (/\ k \in DOMAIN store
                /\ store[k].kind = "record"
                /\ now - store[k].cached_at >= CACHE_MAX_AGE_SECONDS)
               => k \notin DOMAIN store'
            /\ \A x \in DOMAIN store \ {k} :
                  x \in DOMAIN store' /\ store'[x] = store[x]]_vars

\* A get removed the expired record it found and another file is still there.
C4_Witness ==
    /\ last.op = "get"
    /\ last.ret = "miss"
    /\ last.removed = 1
    /\ LastKey \notin DOMAIN store
    /\ DOMAIN store # {}

C6_EvictionFrame ==
    [][last'.op = "clear" =>
        \A x \in DOMAIN store :
            x \notin {get_cache_key(last'.lat, last'.lon, e) : e \in CoordEndpoints}
                => x \in DOMAIN store' /\ store'[x] = store[x]]_vars

\* clear_user_cache at the cell (0.00, 0.00) removed a record and the
\* geocoding record, filed under the same coordinates, is still there.
C6_Witness ==
    /\ last.op = "clear"
    /\ last.removed = 1
    /\ <<last.lat, last.lon>> = PZ
    /\ get_cache_key(Sentinel[1], Sentinel[2], GeoEndpoint) \in DOMAIN store

\* C7: when process_location has looked the weather up and stored the new
\* location, the weather record of the new coordinates is in the store with
\* the payload the lookup returned, whatever the location stored before.
C7_NewCellKept ==
    (last.op = "process_location" /\ last.ret = "return") =>
        LET g == get_cached_data(store, now, last.lat, last.lon, "weather")
        IN  g.ret = "hit" /\ g.data = last.val

\* The update evicted a record of the old cell and the record of the new cell
\* is there.
C7_Witness ==
    /\ last.op = "process_location"
    /\ last.ret = "return"
    /\ last.cleared
    /\ last.removed = 1
    /\ LastKey \in DOMAIN store

\* C8: update_user_location calls clear_user_cache exactly when the user has
\* a stored location whose latitude or longitude differs from the new
\* normalized value by more than 0.01 (more than one grid cell).
C8_EvictIffMoved ==
    (last.op = "process_location" /\ last.ret = "return") =>
        LET n == normalize_coordinates(last.lat, last.lon)
        IN  last.cleared <=>
              /\ last.old.set
              /\ \/ Abs(last.old.lat.m - n[1].m) > 10
                 \/ Abs(last.old.lon.m - n[2].m) > 10

\* C9: cleanup_old_cache removes exactly the files that are expired or that
\* json.load rejects, leaves the others unchanged, and returns the number of
\* files it removed.
C9_SweepExact ==
    [][last'.op = "cleanup" =>
        /\ DOMAIN store' = DOMAIN store \ SweepRemoves(store, now, DOMAIN store)
        /\ \A k \in DOMAIN store' : store'[k] = store[k]
        /\ last'.ret = "return"
        /\ last'.val = Cardinality(DOMAIN store \ DOMAIN store')]_vars

\* C10: when the store holds files of invalid content, one cleanup_old_cache
\* run returns, removes every invalid file and every expired record, keeps
\* the fresh records and counts what it removed.
C10_CorruptResilience ==
    [][(/\ last'.op = "cleanup"
        /\ \E k \in DOMAIN store : store[k].kind # "record") =>
        /\ last'.ret = "return"
        /\ \A k \in DOMAIN store :
              k \in DOMAIN store' <=>
                 /\ store[k].kind = "record"
                 /\ now - store[k].cached_at < CACHE_MAX_AGE_SECONDS
        /\ last'.val = Cardinality(DOMAIN store \ DOMAIN store')]_vars

\* C11: a cleanup_old_cache that runs right after another one, with no write
\* and no advance of the clock between them, returns 0 and leaves the store
\* as the first run left it.
C11_SweepIdempotent ==
    [][(last.op = "cleanup" /\ last'.op = "cleanup") =>
        /\ last'.ret = "return"
        /\ last'.val = 0
        /\ store' = store]_vars

\* C14: get_cached_data never raises; whatever the file of the key holds,
\* the call returns a payload or a miss.
C14_FailOpenRead ==
    last.op = "get" => last.ret \in {"hit", "miss"}

\* C19: a put of a geocoding record at the placeholder (0, 0) and a put of a
\* weather, forecast or air_pollution record at coordinates that round to
\* (0.00, 0.00) do not touch each other: the put leaves what the get of the
\* other returns as it was, and the get of the record put returns its payload.
C19_GeocodingIsolation ==
    [][(last'.op = "save" /\ SameCell(<<last'.lat, last'.lon>>, Sentinel)) =>
        /\ LET g == get_cached_data(store', now, last'.lat, last'.lon, last'.endpoint)
           IN  g.ret = "hit" /\ g.data = last'.arg
        /\ \A i \in StoreInputs :
              (/\ SameCell(i[1], Sentinel)
               /\ (i[2] = GeoEndpoint) # (last'.endpoint = GeoEndpoint))
              => LET a == get_cached_data(store, now, i[1][1], i[1][2], i[2])
                     b == get_cached_data(store', now, i[1][1], i[1][2], i[2])
                 IN  a.ret = b.ret /\ a.data = b.data]_vars

\* The geocoding record was put after the weather record of the cell
\* (0.00, 0.00), and each get returns its own payload.
C19_Witness ==
    /\ last.op = "save"
    /\ last.endpoint = GeoEndpoint
    /\ LET g == get_cached_data(store, now, Sentinel[1], Sentinel[2], GeoEndpoint)
           w == get_cached_data(store, now, PZ[1], PZ[2], "weather")
       IN  /\ g.ret = "hit" /\ g.data = last.arg
           /\ w.ret = "hit" /\ w.data # last.arg

\* C20: two inputs of _get_cache_key that differ in the grid cell or in the
\* endpoint tag have different key strings, for the tags weather, forecast,
\* air_pollution and geocoding_<city> with any city text.
C20_KeyInjective ==
    last.op = "key" =>
        \A j \in KeyInputs :
            key_string(j.lat, j.lon, j.endpoint) = last.key
                => /\ SameCell(<<j.lat, j.lon>>, <<last.input.lat, last.input.lon>>)
                   /\ j.endpoint = last.input.endpoint

\* The key of a geocoding tag whose city text holds the delimiter and a
\* digit was built, and the key of another raw pair of the same cell is
\* the same string.
C20_Witness ==
    /\ last.op = "key"
    /\ last.input.endpoint = GeocodingTag(<<"_", "0">>)
    /\ \E j \in KeyInputs :
          /\ j # last.input
          /\ key_string(j.lat, j.lon, j.endpoint) = last.key

\* The calls of the four gateway functions.
GatewayOps ==
    {"get_weather_by_coordinates", "get_hourly_weather", "get_air_pollution",
     "get_coordinates"}

\* C15: when the remote call has given a response and save_cached_data then
\* fails with a storage error, the gateway function still returns the
\* payload of that response to its caller.
C15_BestEffortWrite ==
    (/\ last.op \in GatewayOps
     /\ last.fetched
     /\ last.resp # NoData
     /\ last.io \in IoOutcomes \ {"ok"})
    => /\ last.ret = "return"
       /\ last.val.body = last.resp.body

\* C16: no weather record in the store holds the display name a caller
\* supplied (_local_name), and a get_weather_by_coordinates without a city
\* name returns no display name.
C16_PristineWeatherRecord ==
    /\ \A k \in DOMAIN store :
          (store[k].kind = "record" /\ store[k].endpoint = "weather")
              => store[k].data.local_name = NoName
    /\ (/\ last.op = "get_weather_by_coordinates"
        /\ last.ret = "return"
        /\ last.city_name = NoName)
       => last.val.local_name = NoName

\* C17: a gateway call that finds a fresh record returns without a remote
\* call and leaves the store as it was: nothing is written, and the payload
\* and cached_at of the record are not changed.
C17_HitFrame ==
    [][(last'.op \in GatewayOps /\ last'.found = "hit") =>
        /\ last'.ret = "return"
        /\ ~last'.fetched
        /\ store' = store]_vars

\* get_weather_by_coordinates with a city name hit a record 599 s old, and
\* the record still has its cached_at and holds no display name.
C17_Witness ==
    /\ last.op = "get_weather_by_coordinates"
    /\ last.found = "hit"
    /\ last.city_name # NoName
    /\ last.val.local_name = last.city_name
    /\ LET k == get_cache_key(last.lat, last.lon, "weather")
       IN  /\ now - store[k].cached_at = 599
           /\ store[k].data.local_name = NoName

\* C18: a record of the air_pollution endpoint holds the mapping of the
\* components only, never the full response, and get_air_pollution returns
\* that mapping on a hit and on a miss.
C18_AirPollutionShape ==
    /\ \A k \in DOMAIN store :
          (store[k].kind = "record" /\ store[k].endpoint = "air_pollution")
              => store[k].data.shape = "components"
    /\ (last.op = "get_air_pollution" /\ last.ret = "return")
          => last.val.shape = "components"

\* C12: no get_cached_data and no cleanup_old_cache reads a half-written
\* record: while a caller is writing the file of a key, a reader finds the
\* complete previous record or the complete new one there.
C12_AtomicPut ==
    last.op \in {"lookup", "cleanup"} => ~last.half_written

\* C13: when a put has finished and no other put of the key is under way,
\* the file of the key holds one complete record, with the payload and the
\* cached_at of that put, also when another caller missed, fetched and put
\* at the same time.
C13_LastWriterWins ==
    (/\ last.op = "save"
     /\ last.attached
     /\ Writers(get_cache_key(last.lat, last.lon, "weather")) = {})
    => LET k == get_cache_key(last.lat, last.lon, "weather")
       IN  /\ k \in DOMAIN store
           /\ store[k].kind = "record"
           /\ store[k].data = last.data
           /\ store[k].cached_at = last.cached_at

\* The text between the first and the last character of s that is not
\* whitespace.
Core(s) ==
    LET idx == {i \in 1..Len(s) : s[i] \notin Whitespace}
    IN  IF idx = {} THEN <<>>
        ELSE SubSeq(s, CHOOSE i \in idx : \A j \in idx : i <= j,
                       CHOOSE i \in idx : \A j \in idx : i >= j)

\* Two city texts differ at most in letter case and in whitespace at the ends.
SameCity(a, b) ==
    /\ Len(Core(a)) = Len(Core(b))
    /\ \A i \in 1..Len(Core(a)) :
          \/ Core(a)[i] = Core(b)[i]
          \/ {Core(a)[i], Core(b)[i]} \in {{"c", "C"}, {"d", "D"}}

\* C21: after get_coordinates has fetched and stored the answer for one
\* spelling of a city, get_coordinates for every spelling that differs from
\* it only in letter case or in whitespace at the ends, at every clock
\* reading less than 600 s later, returns the stored answer and makes no
\* remote call.
C21_CityNormalized ==
    (last.op = "get_coordinates" /\ last.fetched /\ last.ret = "return") =>
        \A c \in Cities :
            SameCity(c, last.city) =>
                \A t \in now..(now + CACHE_MAX_AGE_SECONDS - 1), r \in Responses("geocoding") :
                    LET g == get_coordinates(store, t, c, r, "ok")
                    IN  g.ret = "return" /\ ~g.fetched /\ g.data = last.val

\* get_coordinates fetched the answer for " C ", and the call for "c" 599 s
\* later finds it.
C21_Witness ==
    /\ last.op = "get_coordinates"
    /\ last.fetched
    /\ last.ret = "return"
    /\ last.city = <<" ", "C", " ">>
    /\ ~get_coordinates(store, now + 599, <<"c">>, NoData, "ok").fetched

\* C23: the sweep at process start and every run of the hourly job return,
\* whatever the directory holds and whatever storage error occurs; an error
\* that leaves cleanup_old_cache is logged, and the process is running
\* afterwards, so that the handlers and the later sweeps go on.
C23_JanitorNeverCrashes ==
    /\ proc # "crashed"
    /\ last.op \in {"startup_cleanup", "periodic_cache_cleanup"} =>
          /\ last.ret = "return"
          /\ proc = "running"
          /\ last.sweep_ret = "raise" => last.logged = "error"

\* The sweep at process start met a file of JSON that is not an object:
\* cleanup_old_cache raised, the error was logged and the process runs.
C23_Witness ==
    /\ last.op = "startup_cleanup"
    /\ last.sweep_ret = "raise"
    /\ last.logged = "error"
    /\ proc = "running"

\* C24: when os.remove fails for the file of an endpoint, clear_user_cache
\* returns, has tried all three endpoints and has removed every file of the
\* cell whose os.remove did not fail; and a file that cleanup_old_cache
\* could not remove stays, is not counted, and the sweep goes on to the
\* next file of the listing.
C24_DeleteErrorIsolation ==
    /\ last.op = "clear_user_cache" =>
          /\ last.ret = "return"
          /\ last.tried = endpoints
          /\ \A e \in CoordEndpoints :
                get_cache_key(last.lat, last.lon, e) \notin last.locked
                    => get_cache_key(last.lat, last.lon, e) \notin DOMAIN store
    /\ last.op \in {"startup_cleanup", "periodic_cache_cleanup"} =>
          /\ last.count = last.removed \/ last.sweep_ret = "raise"
          /\ \A i \in 1..Len(last.visited) :
                last.visited[i] \in last.failed =>
                    /\ last.visited[i] \in DOMAIN store
                    /\ i < Len(last.files) => Len(last.visited) > i

\* os.remove failed for the first of two files that a sweep had to remove:
\* the sweep removed and counted the second.
C24_Witness ==
    /\ last.op = "periodic_cache_cleanup"
    /\ Len(last.files) = 2
    /\ last.files[1] \in last.failed
    /\ last.files[2] \notin DOMAIN store
    /\ last.count = 1

\* The file of key k is a record whose age has reached the maximum age.
Expired(k) ==
    /\ k \in DOMAIN store
    /\ store[k].kind = "record"
    /\ now - store[k].cached_at >= CACHE_MAX_AGE_SECONDS

\* C22: while the hourly job keeps firing, every record whose age has
\* reached 600 s is eventually gone from the store or replaced by a fresher
\* one, whatever other files the store holds.
C22_EventualExpiry ==
    \A k \in BotKeys : Expired(k) ~> ~Expired(k)

\* C25: a gateway call changes no file but that of its own key, and that one
\* only after its get_cached_data was a miss and the remote call gave a
\* response; a record that is present, parseable and younger than 600 s is
\* left as it is.
C25_WriteOnlyAfterMiss ==
    [][last'.op \in GatewayOps =>
        LET k == get_cache_key(last'.lat, last'.lon, last'.endpoint)
        IN  /\ \A x \in DOMAIN store' :
                  (x \notin DOMAIN store \/ store'[x] # store[x]) =>
                      /\ x = k
                      /\ last'.found = "miss"
                      /\ last'.fetched
                      /\ last'.resp # NoData
            /\ (/\ k \in DOMAIN store
                 /\ store[k].kind = "record"
                 /\ now - store[k].cached_at < CACHE_MAX_AGE_SECONDS)
                => (k \in DOMAIN store' /\ store'[k] = store[k])]_vars

\* get_hourly_weather missed at time 600 or later, fetched, and the record
\* of its key is the one it wrote.
C25_Witness ==
    /\ last.op = "get_hourly_weather"
    /\ last.found = "miss"
    /\ last.fetched
    /\ last.ret = "return"
    /\ now >= CACHE_MAX_AGE_SECONDS
    /\ LET k == get_cache_key(last.lat, last.lon, "forecast")
       IN  store[k].cached_at = now /\ store[k].data = last.val

\* C26: one maximum age of 600 s decides on every path: a cleanup_old_cache
\* removes a parseable record exactly when get_cached_data on the key of
\* that record, at that instant, reports it expired.
C26_SingleTTL ==
    [][last'.op = "cleanup" =>
        \A k \in DOMAIN store :
            store[k].kind = "record" =>
                LET g == get_cached_data(store, now, store[k].lat, store[k].lon,
                                         store[k].endpoint)
                IN  (k \notin DOMAIN store') <=> (g.ret = "miss")]_vars

\* The replies after which the claims expect another attempt: no response,
\* a status of 500 or more, and 429.
RetryReplies == {q \in Replies : q.status = 0 \/ q.status >= 500 \/ q.status = 429}

\* C27: make_api_request ends after at most 4 calls of requests.get; when
\* the first 4 attempts all end with no response, a status of 500 or more,
\* or 429, it has slept 1, 2 and 4 seconds between them and raises
\* ConnectionError, and it raises ConnectionError in no other case.
C27_BoundedRetry ==
    last.op = "make_api_request" =>
        /\ last.ret # "pending"
        /\ last.attempts <= 4
        /\ (\A i \in 1..4 : last.replies[i] \in RetryReplies) <=>
              last.ret = "ConnectionError"
        /\ last.ret = "ConnectionError" =>
              /\ last.attempts = 4
              /\ last.slept = <<1, 2, 4>>
              /\ now = 7

\* Four attempts failed (no response, 429, 500, no response) and the call
\* raised ConnectionError after sleeping 1, 2 and 4 seconds.
C27_Witness ==
    /\ last.op = "make_api_request"
    /\ last.ret = "ConnectionError"
    /\ last.replies[1].status = 0
    /\ last.replies[2].status = 429
    /\ last.replies[3].status = 500
    /\ last.attempts = 4
    /\ last.slept = <<1, 2, 4>>

\* C28: make_api_request makes another attempt only after no response, a
\* status of 500 or more, or 429: the first reply of another kind ends the
\* call on that attempt, with no sleep after it; a status other than 200
\* raises the message of check_status_code, and a status 200 with an empty
\* body raises the caller's error message.
C28_RetryOnlyOnServerFailure ==
    last.op = "make_api_request" =>
        \A i \in 1..4 :
            (/\ \A j \in 1..(i - 1) : last.replies[j] \in RetryReplies
             /\ last.replies[i] \notin RetryReplies)
            => /\ last.attempts = i
               /\ Len(last.slept) = i - 1
               /\ last.replies[i].status # 200 =>
                     /\ last.ret = "Exception"
                     /\ last.msg \in {"bad request", "unauthorized", "api error"}
               /\ (last.replies[i].status = 200 /\ last.replies[i].body = "empty") =>
                     /\ last.ret = "Exception"
                     /\ last.msg = "error_msg"
               /\ (last.replies[i].status = 200 /\ last.replies[i].body = "data") =>
                     last.ret = "return"

\* The second attempt received 404 after a 500: the call raised there,
\* having slept once.
C28_Witness ==
    /\ last.op = "make_api_request"
    /\ last.replies[1].status = 500
    /\ last.replies[2].status = 404
    /\ last.ret = "Exception"
    /\ last.attempts = 2
    /\ last.slept = <<1>>

\* C29: when the remote call of a gateway function fails, the function
\* raises and writes nothing: the store is as get_cached_data left it, and
\* the file of the key is not created and not changed.
C29_FailedFetchWritesNothing ==
    [][(last'.op \in GatewayOps /\ last'.fetched /\ last'.resp = NoData) =>
        LET k == get_cache_key(last'.lat, last'.lon, last'.endpoint)
        IN  /\ last'.ret = "raise"
            /\ store' = get_cached_data(store, now, last'.lat, last'.lon,
                                        last'.endpoint).store
            /\ k \in DOMAIN store' => (k \in DOMAIN store /\ store'[k] = store[k])]_vars

\* The remote call of get_air_pollution failed at time 600 or later: the
\* call raised, its key has no file and another record is still there.
C29_Witness ==
    /\ last.op = "get_air_pollution"
    /\ last.fetched
    /\ last.resp = NoData
    /\ last.ret = "raise"
    /\ now >= CACHE_MAX_AGE_SECONDS
    /\ get_cache_key(last.lat, last.lon, "air_pollution") \notin DOMAIN store
    /\ DOMAIN store # {}

CachedOps == {"get_hourly_weather", "get_air_pollution", "get_coordinates"}

\* What op hands its caller out of the payload d of a record.
Answer(op, d) == IF op = "get_air_pollution" THEN components(d) ELSE d

\* C31: for get_hourly_weather, get_air_pollution and get_coordinates, a
\* call answered from the cache returns the value the earlier call with the
\* same arguments returned when it fetched the data and filled the record:
\* the call that fetches leaves a record whose payload gives the value it
\* returns, a hit returns the value the payload of the record gives, and a
\* hit right after the filling call returns the value that call returned.
C31_CachedEqualsFetched ==
    [][LET k == get_cache_key(last'.lat, last'.lon, last'.endpoint)
       IN  /\ (last'.op \in CachedOps /\ last'.fetched /\ last'.ret = "return") =>
                 /\ k \in DOMAIN store'
                 /\ store'[k].kind = "record"
                 /\ Answer(last'.op, store'[k].data) = last'.val
           /\ (last'.op \in CachedOps /\ last'.found = "hit") =>
                 /\ last'.ret = "return"
                 /\ last'.val = Answer(last'.op, store[k].data)
                 /\ store'[k] = store[k]
           /\ (/\ last.op \in CachedOps /\ last.fetched /\ last.ret = "return"
               /\ last'.op = last.op /\ last'.lat = last.lat /\ last'.lon = last.lon
               /\ last'.endpoint = last.endpoint) =>
                 /\ last'.found = "hit"
                 /\ last'.val = last.val]_vars

\* get_air_pollution was answered from a record put 599 s before and
\* returned the mapping of the components.
C31_Witness ==
    /\ last.op = "get_air_pollution"
    /\ last.found = "hit"
    /\ last.ret = "return"
    /\ last.val.shape = "components"
    /\ LET k == get_cache_key(last.lat, last.lon, last.endpoint)
       IN  now - store[k].cached_at = 599

\* The coordinate a key text names, in thousandths ("-0.00" names 0).
KeyValue(f) == IF f.sign = "-" THEN -(f.cents * 10) ELSE f.cents * 10

\* The file k holds a record of a coordinate endpoint in the grid cell of
\* the stored location loc.
InCellOf(k, loc) ==
    /\ k[3] \in CoordEndpoints
    /\ KeyValue(k[1]) = loc.lat.m
    /\ KeyValue(k[2]) = loc.lon.m

\* C32: when process_location stores a new location for a user, the files
\* that are neither of the grid cell of the location the user had stored nor
\* the file of the lookup itself stay as they were; and when the new
\* location is more than one grid cell away from the stored one, no record
\* of the cell of the stored location is left, whatever the locations the
\* other users have stored.
C32_EvictionScopedToCell ==
    [][(last'.op = "process_location" /\ last'.ret = "return") =>
        LET old == user_data[last'.user]
            n == normalize_coordinates(last'.lat, last'.lon)
            lookup == get_cache_key(last'.lat, last'.lon, "weather")
        IN  /\ \A k \in DOMAIN store :
                  (k # lookup /\ ~(old.set /\ InCellOf(k, old)))
                      => k \in DOMAIN store' /\ store'[k] = store[k]
            /\ (/\ old.set
                /\ \/ Abs(old.lat.m - n[1].m) > 10
                   \/ Abs(old.lon.m - n[2].m) > 10)
                  => \A k \in DOMAIN store' : ~InCellOf(k, old)]_vars

\* The pollutants the table of standards lists.
Listed == {"so2", "no2", "pm10", "pm2_5", "o3", "co"}

\* C38: analyze_air_pollution gives each of so2, no2, pm10, pm2_5, o3 and co
\* that has a concentration of zero or more exactly one index in 1..5: the
\* index of the one band whose lower end is at or below the concentration
\* and whose upper end is above it, the bands of a pollutant starting at
\* zero and each starting where the one before ends; a lower concentration
\* of the pollutant never has a higher index; and overall_index is the
\* largest index given, or 1 when no pollutant has one.
C38_AirQualityIndex ==
    last.op = "analyze_air_pollution" =>
        LET idx == last.pollutant_indices
        IN  /\ \A q \in DOMAIN last.data \cap Listed :
                  last.data[q] >= 0 =>
                     /\ q \in DOMAIN idx
                     /\ idx[q] \in 1..5
                     /\ {j \in 1..5 :
                            /\ 2 * standards[j][q].min <= last.data[q]
                            /\ standards[j][q].inf \/ last.data[q] < 2 * standards[j][q].max}
                          = {idx[q]}
                     /\ standards[1][q].min = 0
                     /\ standards[5][q].inf
                     /\ \A j \in 1..4 :
                           /\ ~standards[j][q].inf
                           /\ standards[j][q].max = standards[j + 1][q].min
                     /\ \A w \in Concentrations(q) :
                           (0 <= w /\ w <= last.data[q]) =>
                               /\ classify(q, w) >= 1
                               /\ classify(q, w) <= idx[q]
            /\ DOMAIN idx \subseteq DOMAIN last.data \cap Listed
            /\ IF DOMAIN idx = {}
               THEN last.overall_index = 1
               ELSE /\ \E q \in DOMAIN idx : last.overall_index = idx[q]
                    /\ \A q \in DOMAIN idx : idx[q] <= last.overall_index

\* so2 at 20, the lower end of its second band, was given the index 2 and
\* pm2_5 just below 75 the index 4, which is the overall index.
C38_Witness ==
    /\ last.op = "analyze_air_pollution"
    /\ DOMAIN last.data = {"so2", "pm2_5"}
    /\ last.data["so2"] = 40
    /\ last.data["pm2_5"] = 149
    /\ last.pollutant_indices["so2"] = 2
    /\ last.pollutant_indices["pm2_5"] = 4
    /\ last.overall_index = 4

\* C37: when the write of the user file meets no storage error,
\* update_user_location returns, load_user of the user then gives what the
\* table holds of the user, and load_user of every other user gives what it
\* gave before, whatever the file held before.
C37_UserStoreFrame ==
    [][(last'.op = "update_user_location" /\ last'.io = "ok") =>
        /\ last'.ret = "return"
        /\ load_user(user_file', last'.user) =
              [ret |-> "return", data |-> user_data'[last'.user]]
        /\ \A v \in FileUsers \ {last'.user} :
              load_user(user_file', v) = load_user(user_file, v)]_vars

\* The notification jobs of user u in the scheduler.
JobsOf(u) == {i \in 1..Len(jobs) : jobs[i].id = <<"weather_notif", u>>}

\* C33: after main restored the jobs, and after toggle_notifications,
\* set_notification_city_finish or set_notification_interval_finish completed,
\* every user has at most one notification job, and has one exactly when
\* notification_data.enabled of that user is true.
C33_SchedulerInvariant ==
    (/\ last.op \in {"main", "toggle_notifications", "set_notification_city_finish",
                     "set_notification_interval_finish"}
     /\ last.ret = "return")
    => \A u \in Users :
          /\ Cardinality(JobsOf(u)) <= 1
          /\ (JobsOf(u) # {}) <=> (user_data[u].nd /\ user_data[u].enabled)

\* Whether send_weather_notification goes on for the record d of a user.
Notifiable(d) == d.known /\ d.nd /\ d.enabled /\ d.nloc.set

\* C34: a run of send_weather_notification for a user that is unknown, has
\* notifications disabled or has no notification location sends no message,
\* looks no weather up, and leaves next_run, the table, the user file and
\* the cache as they were.
C34_NoNotificationWhenDisabled ==
    [][(/\ last'.op = "send_weather_notification"
        /\ ~Notifiable(user_data[last'.user]))
       => /\ last'.sent = ""
          /\ ~last'.lookup
          /\ user_data' = user_data
          /\ user_file' = user_file
          /\ store' = store
          /\ calls' = calls]_vars

\* The job of a user whose notifications were switched off in memory ran,
\* at a time when the record the cache holds has expired.
C34_Witness ==
    /\ last.op = "send_weather_notification"
    /\ user_data[last.user].known
    /\ user_data[last.user].nloc.set
    /\ ~user_data[last.user].enabled
    /\ last.sent = ""
    /\ store # EmptyStore
    /\ now = MaxNow

\* C35: notification_data.enabled is true only if notification_data.location
\* is set; toggle_notifications for a user with neither a notification
\* location nor a main location leaves enabled false, writes nothing to the
\* user file and schedules no job.
C35_EnabledImpliesLocated ==
    /\ [](\A u \in Users : user_data[u].enabled => user_data[u].nloc.set)
    /\ [][(/\ last'.op = "toggle_notifications"
           /\ ~user_data[last'.user].nloc.set
           /\ ~user_data[last'.user].set)
          => /\ ~user_data'[last'.user].enabled
             /\ user_file' = user_file
             /\ jobs' = jobs]_vars

\* A user without any location pressed the toggle and got the alert.
C35_Witness ==
    /\ last.op = "toggle_notifications"
    /\ last.sent = "alert"
    /\ user_data[last.user].known
    /\ ~user_data[last.user].enabled
    /\ ~user_data[last.user].nloc.set
    /\ JobsOf(last.user) = {}

\* Whether the message m is a text of two numerals, a latitude in
\* [-90, 90] and a longitude in [-180, 180], in thousandths of a degree.
TwoCoordinates(m) ==
    /\ m.kind = "text"
    /\ Len(m.parts) = 2
    /\ \A i \in {1, 2} : m.parts[i].kind = "number"
    /\ m.parts[1].x.m \in -90000..90000
    /\ m.parts[2].x.m \in -180000..180000

\* C36: in the state waiting_for_manual_coordinates an input that has not
\* exactly two parts, is not numeric or is out of range causes no weather
\* lookup, no read or write of the cache and no change of the stored
\* location, and the conversation stays in the state; a successful lookup
\* clears the state.
C36_ManualCoordinatesValidated ==
    [][last'.op = "process_manual_coordinates"
       => LET u == last'.user
              m == last'.arg.message
          IN  /\ ~TwoCoordinates(m)
                 => /\ ~last'.lookup
                    /\ store' = store
                    /\ calls' = calls
                    /\ user_data' = user_data
                    /\ user_file' = user_file
                    /\ fsm'[u] = "waiting_for_manual_coordinates"
              /\ (/\ TwoCoordinates(m)
                  /\ get_weather_by_coordinates(store, now, m.parts[1].x, m.parts[2].x,
                                                NoName, last'.arg.resp, "ok").ret = "return")
                 => /\ last'.lookup
                    /\ fsm'[u] = ""]_vars


====
